---------------------------- MODULE Spec2Model ----------------------------
(***************************************************************************)
(* Model of the KHIS family-planning / MNCH data pipeline:                 *)
(*   - the table-alignment guard (validate_source_to_destination),         *)
(*   - the batched historical extractor (KhisHistoricalDataExtractor),     *)
(*   - the transformation pipeline (DataTransformationPipeline) with its   *)
(*     county / national aggregation and the "2 Rod" split rule.           *)
(*                                                                         *)
(* Text is modelled as a sequence of one-character strings, a calendar     *)
(* date as a record [y, m, d], the ISO text 'YYYY-MM-DD' of a date as the  *)
(* tuple <<y, m, d>> and the DHIS2 period code YYYYMM as the integer       *)
(* y * 100 + m.  A database table is Absent or a bag of rows.              *)
(***************************************************************************)
EXTENDS Integers, Sequences, FiniteSets, Bags, TLC

\* ------------------------------------------------------------------ bounds
MaxFacilities == 3      \* rows of organisation_units the extractor may see
MaxChunk == 2           \* largest facility_chunk_size tried
MaxRuns == 2            \* extractor runs in sequence on one instance
BaseYear == 2024        \* the date inputs start in December of this year
MonthSpan == 2          \* number of consecutive months the inputs cover
MidDay == 15            \* a day-of-month other than 1
MaxObs == 2             \* rows of the raw table a transformation run reads
MaxSplitRows == 2       \* rows of a frame handed to the split rule alone
PlannerSpan == 4        \* consecutive months the period planner's inputs cover
TreeFacilities == 3     \* level-5 rows of the organisation-unit tree
MaxLoopBatches == 2     \* facility batches of a run scheduled on the event loop
MaxRequests == 2        \* other requests arriving on the loop during a run
MaxNameLen == 5         \* characters of a data element's display name

\* ------------------------------------------------------- text and programs
Min(a, b) == IF a <= b THEN a ELSE b

\* str.startswith
StartsWith(s, p) == Len(s) >= Len(p) /\ SubSeq(s, 1, Len(p)) = p

\* backend.core.enums.Program: a str-valued enumeration
Programs == {"FP", "MNCH"}

\* A program argument as Python sees it: the enum member or its plain .value
EnumArg(p) == [kind |-> "enum", value |-> p]
StrArg(p) == [kind |-> "str", value |-> p]

FpPrefix == <<"f", "p", "_">>
MnchPrefix == <<"m", "n", "c", "h", "_">>

ProgramPrefix(p) == IF p = "FP" THEN FpPrefix ELSE MnchPrefix

\* Table names tried: fp_r, mnch_r, fp (no underscore), FP_r (upper case),
\* xfp_ (prefix not at the start), mnch_ (the bare prefix)
TableNames ==
    { <<"f", "p", "_", "r">>,
      <<"m", "n", "c", "h", "_", "r">>,
      <<"f", "p">>,
      <<"F", "P", "_", "r">>,
      <<"x", "f", "p", "_">>,
      <<"m", "n", "c", "h", "_">> }

\* Mutant of the guard: the FP branch is missing.
ValidateNoFpBranch(program, dest_table) ==
    IF program.value = "MNCH" /\ ~StartsWith(dest_table, MnchPrefix)
    THEN IF program.kind = "enum" THEN "ValueError" ELSE "AttributeError"
    ELSE "ok"

\* validate_source_to_destination: "ok" when it returns, else the exception
\* raised.  Program is a str subclass, so `program == Program.MNCH` compares
\* the text whether program is the member or its value; the warning's
\* f-string reads program.value before the ValueError is raised, which a
\* plain str does not have.
ValidateSourceToDestination(program, dest_table) ==
    IF program.value = "MNCH" /\ ~StartsWith(dest_table, MnchPrefix)
    THEN IF program.kind = "enum" THEN "ValueError" ELSE "AttributeError"
    ELSE IF program.value = "FP" /\ ~StartsWith(dest_table, FpPrefix)
    THEN IF program.kind = "enum" THEN "ValueError" ELSE "AttributeError"
    ELSE "ok"

\* ------------------------------------------------------------------- dates
MkDate(y, m, d) == [y |-> y, m |-> m, d |-> d]

\* date.__le__
DateLeq(a, b) ==
    \/ a.y < b.y
    \/ a.y = b.y /\ a.m < b.m
    \/ a.y = b.y /\ a.m = b.m /\ a.d <= b.d

\* str(date): the text 'YYYY-MM-DD'
IsoText(d) == <<d.y, d.m, d.d>>

\* datetime.strptime(text, "%Y-%m-%d")
ParseIso(s) == [y |-> s[1], m |-> s[2], d |-> s[3]]

\* strftime("%Y%m")
PeriodCode(d) == d.y * 100 + d.m

\* str.strptime(pl.Date, "%Y%m") of a period code: the first of that month
ParsePeriodCode(c) == [y |-> c \div 100, m |-> c % 100, d |-> 1]

\* first_day_of_month
first_day_of_month(d) == IsoText([d EXCEPT !.d = 1])

\* Mutant of the increment: the day of the month is kept.
NextMonthSameDay(d) ==
    IF d.m = 12 THEN MkDate(d.y + 1, 1, d.d) ELSE MkDate(d.y, d.m + 1, d.d)

\* the first day of the month after d's
NextMonthFirst(d) ==
    IF d.m = 12 THEN MkDate(d.y + 1, 1, 1) ELSE MkDate(d.y, d.m + 1, 1)

RECURSIVE PeriodDates(_, _)
PeriodDates(start, end) ==
    IF DateLeq(start, end)
    THEN <<start>> \o PeriodDates(NextMonthFirst(start), end)
    ELSE <<>>

\* generate_period_strings
generate_period_strings(start, end) ==
    LET periods == PeriodDates(start, end)
    IN [i \in 1..Len(periods) |-> first_day_of_month(periods[i])]

\* current_period += relativedelta(months=1): same day, next month
PlusOneMonth(d) ==
    IF d.m = 12 THEN MkDate(d.y + 1, 1, d.d) ELSE MkDate(d.y, d.m + 1, d.d)

RECURSIVE UrlPeriodsFrom(_, _)
UrlPeriodsFrom(current, end) ==
    IF DateLeq(current, end)
    THEN <<PeriodCode(current)>> \o UrlPeriodsFrom(PlusOneMonth(current), end)
    ELSE <<>>

\* generate_khis_data_api_url: the pe dimension of the query
UrlPeriods(start_date, end_date) ==
    UrlPeriodsFrom(ParseIso(start_date), ParseIso(end_date))

SeqToSet(s) == {s[i] : i \in 1..Len(s)}

\* The months the date inputs are drawn from: December of BaseYear and the
\* months after it.
InputMonths ==
    {IF k = 0 THEN MkDate(BaseYear, 12, 1) ELSE MkDate(BaseYear + 1, k, 1) :
        k \in 0..(MonthSpan - 1)}

DateInputs == {[mo EXCEPT !.d = dd] : mo \in InputMonths, dd \in {1, MidDay}}


\* ---------------------------------------------------------------- database
\* A table of the relational store: absent, or present with a bag of rows.
AbsentTable == [exists |-> FALSE, rows |-> EmptyBag]
TableOf(rows) == [exists |-> TRUE, rows |-> rows]

\* Mutant of the delete: the WHERE clause is missing, no row stays.
DeleteEveryRow(rows, periods) == [r \in {} |-> 0]

\* Mutant of the delete: the statement matches no row.
KeepEveryRow(rows, periods) == rows

\* DELETE FROM table WHERE period IN (periods): the rows that stay
RowsNotInPeriods(rows, periods) ==
    LET keep == {r \in DOMAIN rows : IsoText(r.period) \notin SeqToSet(periods)}
    IN [r \in keep |-> rows[r]]

\* Mutant of the append: the write mode is taken for "replace".
AppendAsReplace(tbl, new_rows) == TableOf(new_rows)

\* write_database(if_table_exists="append"): creates the table when absent
AppendRows(tbl, new_rows) == TableOf(tbl.rows (+) new_rows)

\* write_database(if_table_exists="replace")
ReplaceRows(tbl, new_rows) == TableOf(new_rows)

\* ------------------------------------------------------- the extractor run
VARIABLES
    ex_pc,          \* "new", "rejected", "ready", "cleanup", "batch"
    ex_program,     \* self.program
    ex_table,       \* self.output_table_name
    ex_chunk,       \* self.facility_chunk_size
    ex_error,       \* exception raised by __init__, "none" if none
    db,             \* table name -> table
    org_units_tbl,  \* facility_id column of organisation_units, in row order
    remote,         \* facilities for which KHIS holds data
    r_start,        \* run(start_date, ...)
    r_end,          \* run(..., end_date)
    r_target,       \* target_periods
    r_start_str,    \* start_date_str
    r_end_str,      \* end_date_str
    r_org_units,    \* org_units_df
    r_index,        \* rows of org_units_df already handed out by iter_df_chunks
    r_total,        \* total_rows_processed
    r_status,       \* how the current or last run stands
    runs,           \* runs started so far
    h_cleanup,      \* what _pre_cleanup did in this run
    h_batches,      \* one record per loop iteration of this run
    h_start_tbl,    \* destination table when this run started
    h_prev          \* the previous run: its arguments, outcome and final table

exVars == <<ex_pc, ex_program, ex_table, ex_chunk, ex_error, db, org_units_tbl,
            remote, r_start, r_end, r_target, r_start_str, r_end_str,
            r_org_units, r_index, r_total, r_status, runs, h_cleanup,
            h_batches, h_start_tbl, h_prev>>

Facilities == 1..MaxFacilities

NoDate == MkDate(0, 0, 0)
NoPrev == [valid |-> FALSE, start |-> NoDate, end |-> NoDate, clean |-> FALSE,
           table |-> AbsentTable]

\* A row an earlier load left in a raw table: facility 1, first input month.
OldRow == [org_unit |-> 1, period |-> MkDate(BaseYear, 12, 1)]

\* A row of a month no input range covers.
OutsideRow == [org_unit |-> 1, period |-> MkDate(BaseYear, 11, 1)]

InitialTables ==
    { AbsentTable,
      TableOf(EmptyBag),
      TableOf(SetToBag({OldRow, OutsideRow})) }

ExInit ==
    /\ ex_pc = "new"
    /\ ex_program = "FP"
    /\ ex_table = <<>>
    /\ ex_chunk = 1
    /\ ex_error = "none"
    /\ \E t \in InitialTables : db = [n \in TableNames |-> t]
    /\ \E n \in 0..MaxFacilities : org_units_tbl = [i \in 1..n |-> i]
    /\ remote \in {Facilities, Facilities \ {1}}
    /\ r_start = NoDate
    /\ r_end = NoDate
    /\ r_target = <<>>
    /\ r_start_str = <<>>
    /\ r_end_str = <<>>
    /\ r_org_units = <<>>
    /\ r_index = 0
    /\ r_total = 0
    /\ r_status = "none"
    /\ runs = 0
    /\ h_cleanup = "none"
    /\ h_batches = <<>>
    /\ h_start_tbl = AbsentTable
    /\ h_prev = NoPrev

\* KhisHistoricalDataExtractor.__init__: the guard is called with the enum
\* member; a failing guard leaves no usable instance.
ExConstruct(program, table, chunk) ==
    /\ ex_pc = "new"
    /\ ex_program' = program
    /\ ex_table' = table
    /\ ex_chunk' = chunk
    /\ ex_error' = ValidateSourceToDestination(EnumArg(program), table)
    /\ ex_pc' = IF ex_error' = "ok" THEN "ready" ELSE "rejected"
    /\ UNCHANGED <<db, org_units_tbl, remote, r_start, r_end, r_target,
                   r_start_str, r_end_str, r_org_units, r_index, r_total,
                   r_status, runs, h_cleanup, h_batches, h_start_tbl, h_prev>>

\* The run made no failing step so far.
RunClean ==
    /\ h_cleanup \in {"none", "skipped_no_periods", "skipped_no_table", "deleted"}
    /\ \A i \in 1..Len(h_batches) :
          /\ h_batches[i].q = "ok"
          /\ h_batches[i].wrote \in {"none", "ok"}

\* run(), up to the cleanup: _prepare_inputs and the empty-org-units return.
\* db_up = FALSE is get_org_units_ids_df failing, which run() does not catch.
ExStartRun(start, end, db_up) ==
    /\ ex_pc = "ready"
    /\ runs' = runs + 1
    /\ r_start' = start
    /\ r_end' = end
    /\ r_start_str' = first_day_of_month(start)
    /\ r_end_str' = first_day_of_month(end)
    /\ r_target' = generate_period_strings(start, end)
    /\ r_org_units' = IF db_up THEN org_units_tbl ELSE <<>>
    /\ r_index' = 0
    /\ r_total' = 0
    /\ h_cleanup' = "none"
    /\ h_batches' = <<>>
    /\ h_start_tbl' = db[ex_table]
    /\ h_prev' = IF runs = 0 THEN NoPrev
                 ELSE [valid |-> TRUE, start |-> r_start, end |-> r_end,
                       clean |-> r_status = "completed" /\ RunClean,
                       table |-> db[ex_table]]
    /\ r_status' = IF ~db_up THEN "raised"
                   ELSE IF Len(org_units_tbl) = 0 THEN "aborted_no_org_units"
                   ELSE "running"
    /\ ex_pc' = IF r_status' = "running" THEN "cleanup" ELSE "ready"
    /\ UNCHANGED <<ex_program, ex_table, ex_chunk, ex_error, db, org_units_tbl,
                   remote>>

\* The first run() on a fresh instance, with any arguments.
ExFirstRun(start, end, db_up) == runs = 0 /\ ExStartRun(start, end, db_up)

\* The caller invokes run() again with the arguments of the run that ended.
ExRerun ==
    /\ runs >= 1
    /\ runs < MaxRuns
    /\ ExStartRun(r_start, r_end, TRUE)

CleanupOutcomes == {"ok", "exists_raises", "delete_fails"}

\* _pre_cleanup / delete_existing_data_for_periods: what happens for outcome o
CleanupResult(periods, tbl, o) ==
    IF Len(periods) = 0 THEN "skipped_no_periods"
    ELSE IF o = "exists_raises" THEN "raised"
    ELSE IF ~tbl.exists THEN "skipped_no_table"
    ELSE IF o = "delete_fails" THEN "failed"
    ELSE "deleted"

\* Mutant of CleanupAborts: the except clause logs and falls through to the
\* batch loop.
CleanupLogsOnly(result) == FALSE

\* run()'s except clause around _pre_cleanup: an exception out of the cleanup
\* is logged and run() returns.
CleanupAborts(result) == result \in {"raised", "failed"}

\* run(): the one-time cleanup and its except clause
ExCleanup(o) ==
    /\ ex_pc = "cleanup"
    /\ h_cleanup' = CleanupResult(r_target, db[ex_table], o)
    /\ db' = IF h_cleanup' = "deleted"
             THEN [db EXCEPT ![ex_table] =
                       TableOf(RowsNotInPeriods(db[ex_table].rows, r_target))]
             ELSE db
    /\ IF CleanupAborts(h_cleanup')
       THEN /\ r_status' = "aborted_cleanup"
            /\ ex_pc' = "ready"
       ELSE /\ r_status' = r_status
            /\ ex_pc' = "batch"
    /\ UNCHANGED <<ex_program, ex_table, ex_chunk, ex_error, org_units_tbl,
                   remote, r_start, r_end, r_target, r_start_str, r_end_str,
                   r_org_units, r_index, r_total, runs, h_batches,
                   h_start_tbl, h_prev>>


QueryOutcomes == {"ok", "transport", "parse"}
WriteOutcomes == {"ok", "exists_raises", "write_fails"}

\* every way a query can end that extract_historical_data_from_khis handles
PayloadOutcomes == QueryOutcomes \cup {"empty", "schema"}

\* the header line of the CSV KHIS returns
KhisHeaders == << "Data", "Organisation unit", "Period", "Value" >>

\* the rename of the success path
RenameColumn(c) ==
    CASE c = "Data" -> "analytic"
      [] c = "Organisation unit" -> "org_unit"
      [] c = "Period" -> "period"
      [] c = "Value" -> "value"
      [] OTHER -> c

\* the schema of sample_df_if_query_fails
CanonicalColumns == << "analytic", "org_unit", "period", "value" >>

\* Mutant of NextOffset: the loop stays on the chunk it has just handled.
SameOffset(i, size) == i

\* iter_df_chunks' range(0, df.height, size): the offset after offset i
NextOffset(i, size) == i + size

\* Mutant of iter_df_chunks' slice: one row too many, so chunks overlap.
DfSliceOverlap(df, i, size) == SubSeq(df, i + 1, Min(i + size + 1, Len(df)))

\* df.slice(i, size): rows i .. i + size - 1 (0-based), cut at the end
DfSlice(df, i, size) == SubSeq(df, i + 1, Min(i + size, Len(df)))

\* The CSV payload KHIS returns for a query: one line per requested facility
\* that has data and requested period.
RemotePayload(org_unit_ids, periods, data) ==
    {[org_unit |-> f, code |-> periods[k]] :
        f \in SeqToSet(org_unit_ids) \cap data, k \in 1..Len(periods)}

\* Mutant of extract_historical_data_from_khis: a transport or parse failure
\* is raised to the caller instead of being turned into the empty frame.
ExtractRaising(q, org_unit_ids, start_date, end_date, data) ==
    IF q \in {"transport", "parse"}
    THEN [raised |-> TRUE, rows |-> {}, columns |-> <<>>]
    ELSE IF q \in {"empty", "schema"}
    THEN [raised |-> FALSE, rows |-> {}, columns |-> CanonicalColumns]
    ELSE [raised |-> FALSE,
          rows |-> {[org_unit |-> l.org_unit, period |-> ParsePeriodCode(l.code)] :
                      l \in RemotePayload(org_unit_ids,
                                          UrlPeriods(start_date, end_date), data)},
          columns |-> [i \in 1..Len(KhisHeaders) |-> RenameColumn(KhisHeaders[i])]]

\* Mutant of extract_historical_data_from_khis: the empty-content test is
\* missing, so an empty payload reaches the CSV reader outside any handler.
ExtractRaisingOnEmpty(q, org_unit_ids, start_date, end_date, data) ==
    IF q = "empty"
    THEN [raised |-> TRUE, rows |-> {}, columns |-> <<>>]
    ELSE IF q \in {"transport", "parse", "schema"}
    THEN [raised |-> FALSE, rows |-> {}, columns |-> CanonicalColumns]
    ELSE [raised |-> FALSE,
          rows |-> {[org_unit |-> l.org_unit, period |-> ParsePeriodCode(l.code)] :
                      l \in RemotePayload(org_unit_ids,
                                          UrlPeriods(start_date, end_date), data)},
          columns |-> [i \in 1..Len(KhisHeaders) |-> RenameColumn(KhisHeaders[i])]]

\* extract_historical_data_from_khis for a request that ends as q: the rows
\* of the returned frame, and whether an exception left the function.
\* "transport" is requests.get or raise_for_status raising, "empty" a response
\* without content, "parse" a payload read_csv rejects and "schema" one
\* without the columns that are renamed.
extract_historical_data_from_khis(q, org_unit_ids, start_date, end_date, data) ==
    LET rows == {[org_unit |-> l.org_unit, period |-> ParsePeriodCode(l.code)] :
                    l \in RemotePayload(org_unit_ids,
                                        UrlPeriods(start_date, end_date), data)}
    IN IF q = "transport"
       THEN [raised |-> FALSE, rows |-> {}, columns |-> CanonicalColumns]
       ELSE IF q = "empty"
       THEN [raised |-> FALSE, rows |-> {}, columns |-> CanonicalColumns]
       ELSE IF q \in {"parse", "schema"}
       THEN [raised |-> FALSE, rows |-> {}, columns |-> CanonicalColumns]
       ELSE IF rows = {}
       THEN [raised |-> FALSE, rows |-> {}, columns |-> CanonicalColumns]
       ELSE [raised |-> FALSE, rows |-> rows,
             columns |-> [i \in 1..Len(KhisHeaders) |-> RenameColumn(KhisHeaders[i])]]

\* Mutant of save_df_to_db: a failed write is raised to the caller.
SaveRaising(tbl, rows, mode, w) ==
    IF w \in {"exists_raises", "write_fails"}
    THEN [raised |-> TRUE, written |-> FALSE, table |-> tbl]
    ELSE [raised |-> FALSE, written |-> TRUE,
          table |-> IF mode = "append" THEN AppendRows(tbl, rows)
                    ELSE ReplaceRows(tbl, rows)]

\* save_df_to_db for a write that ends as w: check_table_exists runs outside
\* the try block, so its failure leaves the function; a failure of
\* write_database is logged and not raised.
save_df_to_db(tbl, rows, mode, w) ==
    IF w = "exists_raises"
    THEN [raised |-> TRUE, written |-> FALSE, table |-> tbl]
    ELSE IF w = "write_fails"
    THEN [raised |-> FALSE, written |-> FALSE, table |-> tbl]
    ELSE [raised |-> FALSE, written |-> TRUE,
          table |-> IF mode = "append" THEN AppendRows(tbl, rows)
                    ELSE ReplaceRows(tbl, rows)]

\* run(): one iteration of the batch loop, and the completion message when
\* it was the last one.
ExBatch(q, w) ==
    /\ ex_pc = "batch"
    /\ LET chunk == DfSlice(r_org_units, r_index, ex_chunk)
           res == extract_historical_data_from_khis(q, chunk, r_start_str,
                                                    r_end_str, remote)
           height == Cardinality(res.rows)
           saved == save_df_to_db(db[ex_table], SetToBag(res.rows), "append", w)
           saving == ~res.raised /\ height > 0
           raised == res.raised \/ (saving /\ saved.raised)
           wrote == IF ~saving THEN "none"
                    ELSE IF saved.raised THEN "raised"
                    ELSE IF saved.written THEN "ok"
                    ELSE "failed"
       IN /\ h_batches' = Append(h_batches,
                                 [chunk |-> chunk, q |-> q, rows |-> height,
                                  wrote |-> wrote, raised |-> res.raised,
                                  columns |-> res.columns])
          /\ db' = IF saving THEN [db EXCEPT ![ex_table] = saved.table] ELSE db
          /\ r_total' = IF saving /\ ~saved.raised THEN r_total + height
                        ELSE r_total
          /\ r_index' = IF raised THEN r_index ELSE NextOffset(r_index, ex_chunk)
          /\ r_status' = IF raised THEN "aborted_batch"
                         ELSE IF r_index' >= Len(r_org_units) THEN "completed"
                         ELSE r_status
          /\ ex_pc' = IF r_status' = "running" THEN "batch" ELSE "ready"
    /\ UNCHANGED <<ex_program, ex_table, ex_chunk, ex_error, org_units_tbl,
                   remote, r_start, r_end, r_target, r_start_str, r_end_str,
                   r_org_units, runs, h_cleanup, h_start_tbl, h_prev>>



\* ------------------------------------------------ extractor: derived notions
CeilDiv(n, c) == (n + c - 1) \div c

RECURSIVE Flatten(_)
Flatten(seqs) == IF seqs = <<>> THEN <<>> ELSE Head(seqs) \o Flatten(Tail(seqs))

\* What awaiting run(), or the task run_in_bg returns, gives its caller for a
\* run that ended as status: both except clauses and the empty-org-units
\* branch end in a bare return, as does the end of the function; only an
\* exception out of _prepare_inputs leaves run().
AwaitedResult(status) ==
    IF status = "raised"
    THEN [raised |-> TRUE, value |-> "none"]
    ELSE [raised |-> FALSE, value |-> "None"]

\* a run() call has returned or raised
RunEnded == runs >= 1 /\ ex_pc = "ready"

\* the chunks iter_df_chunks yields for this run's facility list
AllChunks ==
    {DfSlice(r_org_units, k * ex_chunk, ex_chunk) :
        k \in 0..(CeilDiv(Len(r_org_units), ex_chunk) - 1)}

\* the rows KHIS holds for a chunk over this run's query window
ChunkRows(chunk) ==
    extract_historical_data_from_khis("ok", chunk, r_start_str, r_end_str,
                                      remote).rows

DestRows == db[ex_table].rows

\* copies of row r the cleanup of this run left in the destination table
AfterCleanupCopies(r) ==
    IF h_cleanup = "deleted" /\ first_day_of_month(r.period) \in SeqToSet(r_target)
    THEN 0
    ELSE CopiesIn(r, h_start_tbl.rows)

\* number of successful appends of this run that carried row r
WrittenCopies(r) ==
    Cardinality({i \in 1..Len(h_batches) :
                    /\ h_batches[i].wrote = "ok"
                    /\ r \in ChunkRows(h_batches[i].chunk)})

RowUniverse ==
    DOMAIN DestRows \cup DOMAIN h_start_tbl.rows
        \cup UNION {ChunkRows(c) : c \in AllChunks}

Covered(chunk) ==
    /\ ChunkRows(chunk) # {}
    /\ \A r \in ChunkRows(chunk) : CopiesIn(r, DestRows) >= 1

Uncovered(chunk) ==
    /\ ChunkRows(chunk) # {}
    /\ \E r \in ChunkRows(chunk) : CopiesIn(r, DestRows) = 0

\* the cleanup left no row that a chunk of this run can return
NoStaleRows ==
    \A c \in AllChunks : \A r \in ChunkRows(c) : AfterCleanupCopies(r) = 0

QueryFailed(b) == b.q \in {"transport", "parse"}

\* ---------------------------------------------------------------- claim C2
\* C2 as stated: after any extractor run, completed or aborted, the
\* destination table holds the rows of every facility chunk or the rows of no
\* chunk, never the rows of some chunks only (rows of the range that were in
\* the table before the run and survived its cleanup are left out of account).
C2_AllOrNothing ==
    (RunEnded /\ NoStaleRows) =>
        ~(\E c1 \in AllChunks, c2 \in AllChunks : Covered(c1) /\ Uncovered(c2))

\* C2 amended: after any extractor run the destination table holds what the
\* cleanup left plus exactly the rows of the chunks whose query returned rows
\* and whose append succeeded before the run ended; these are the rows of every
\* chunk when the run completed without a failed query or write.
C2_WrittenChunksOnly ==
    RunEnded =>
        /\ \A r \in RowUniverse :
              CopiesIn(r, DestRows) = AfterCleanupCopies(r) + WrittenCopies(r)
        /\ (r_status = "completed" /\ RunClean) =>
              \A c \in AllChunks : \A r \in ChunkRows(c) : CopiesIn(r, DestRows) >= 1

\* C2 witness: a run that completed with the first chunk appended and a later
\* chunk's rows missing.
C2_PartialCoverageReached ==
    /\ RunEnded
    /\ NoStaleRows
    /\ r_status = "completed"
    /\ Len(h_batches) >= 2
    /\ h_batches[1].wrote = "ok"
    /\ Covered(h_batches[1].chunk)
    /\ \E c \in AllChunks : Uncovered(c)

\* ---------------------------------------------------------------- claim C3
\* C3 as stated: a chunk whose query fails in transport or whose payload
\* cannot be parsed is the last chunk of the run, and the run is aborted.
C3_AbortsOnQueryFailure ==
    \A i \in 1..Len(h_batches) :
        QueryFailed(h_batches[i]) =>
            i = Len(h_batches) /\ r_status = "aborted_batch"

\* C3 amended: a chunk whose query fails in transport or whose payload cannot
\* be parsed yields zero rows; nothing is appended for it and the run is not
\* aborted by it but goes on with the next chunk, or completes when it was
\* the last; a run aborts in the batch loop only on an exception of the save.
C3_QueryFailureSkipsChunk ==
    /\ \A i \in 1..Len(h_batches) :
          QueryFailed(h_batches[i]) =>
              /\ h_batches[i].rows = 0
              /\ h_batches[i].wrote = "none"
              /\ i = Len(h_batches) => r_status \in {"running", "completed"}
              /\ (i = Len(h_batches) /\ r_status = "running") =>
                    r_index < Len(r_org_units) /\ ex_pc = "batch"
    /\ r_status = "aborted_batch" =>
          /\ h_batches # <<>>
          /\ h_batches[Len(h_batches)].wrote = "raised"

\* C3 witness: the first chunk's query failed in transport and a later chunk
\* was queried and appended.
C3_RunWentOnAfterFailure ==
    /\ Len(h_batches) >= 2
    /\ h_batches[1].q = "transport"
    /\ h_batches[2].wrote = "ok"

\* ---------------------------------------------------------------- claim C4
\* C4: when the remote answers the same and all writes succeed, a second run
\* with the same (start_date, end_date) leaves the destination table with the
\* rows the first run left.
C4_RerunIdempotent ==
    (runs = 2 /\ RunEnded /\ r_status = "completed" /\ RunClean
        /\ h_prev.valid /\ h_prev.clean
        /\ h_prev.start = r_start /\ h_prev.end = r_end)
    => db[ex_table] = h_prev.table

\* ---------------------------------------------------------------- claim C5
\* C5: a run in which no batch aborts issues exactly ceil(N / C) queries, one
\* per chunk; the chunks are the consecutive slices of the facility list in
\* input order, each of 1..C ids, and every facility id is in exactly one.
C5_ChunkingExact ==
    (RunEnded /\ r_status \in {"completed", "aborted_no_org_units"}) =>
        LET chunks == [i \in 1..Len(h_batches) |-> h_batches[i].chunk]
        IN /\ Len(chunks) = CeilDiv(Len(r_org_units), ex_chunk)
           /\ Flatten(chunks) = r_org_units
           /\ \A i \in 1..Len(chunks) :
                 Len(chunks[i]) >= 1 /\ Len(chunks[i]) <= ex_chunk
           /\ \A f \in SeqToSet(r_org_units) :
                 Cardinality({i \in 1..Len(chunks) : f \in SeqToSet(chunks[i])}) = 1

\* C5 witness: a completed run over three facilities in chunks of two.
C5_UnevenChunksReached ==
    /\ RunEnded
    /\ r_status = "completed"
    /\ Len(r_org_units) = 3
    /\ ex_chunk = 2
    /\ Len(h_batches) = 2

\* ---------------------------------------------------------------- claim C7
\* C7: when a run completes, total_rows_processed equals the number of rows
\* the run added to the destination table.
C7_TotalEqualsRowsAdded ==
    (RunEnded /\ r_status = "completed") =>
        LET left == [r \in {x \in RowUniverse : AfterCleanupCopies(x) > 0}
                        |-> AfterCleanupCopies(r)]
        IN r_total = BagCardinality(DestRows) - BagCardinality(left)


\* ------------------------------------------- the transformation: data model
\* A value is held as a whole number of twentieths, so that the factors 1.25
\* and 0.5 and the split ratios 0.8 and 0.2 are exact.
ValueUnit == 4 * 5

\* DataTransformationPipeline.ANALYTIC_ID_MAP
ANALYTIC_ID_MAP ==
    "dl4JcBnxu0X" :> "POPs" @@ "uHM6lzLXDBd" :> "POPs" @@
    "tfPZ6sGgh4q" :> "Non-Hormonal IUCD" @@ "hRktPfPEegP" :> "Non-Hormonal IUCD" @@
    "cV4qoKSYiBs" :> "Male Condoms" @@ "AVDzuypqGt9" :> "Male Condoms" @@
    "APbXNRovb5w" :> "Levoplant" @@
    "CJdFYcZ1zOq" :> "Implanon" @@ "XgJfT71Unkn" :> "Implanon" @@
    "MsS41X1GEFr" :> "Jadelle" @@
    "zXbxl6y97mi" :> "Hormonal IUCD" @@ "Wv02gixbRpT" :> "Hormonal IUCD" @@
    "Fxb4iVJdw2g" :> "Female Condoms" @@ "AR7RhdC90IV" :> "Female Condoms" @@
    "paDQStynGGD" :> "EC Pills" @@ "qaBPR9wbWku" :> "EC Pills" @@
    "NMCIxSeGpS3" :> "DMPA-SC" @@ "hXa1xyUMfTa" :> "DMPA-SC" @@
    "PgQIx7Hq1kp" :> "DMPA-IM" @@ "J6qnTev1LXw" :> "DMPA-IM" @@
    "fYCo4peO0yE" :> "Cycle Beads" @@ "bGGT0F7iRxt" :> "Cycle Beads" @@
    "BQmcVE8fex4" :> "COCs" @@ "hH9gmEmEhH4" :> "COCs" @@
    "TUHzoPGLM3t" :> "2 Rod" @@
    "GOFxghdlf5n" :> "Chlorhexidine Gel" @@
    "qoEFejcajz1" :> "Tetracycline Eye Ointment" @@
    "WbDKZsPHAOK" :> "Magnesium Sulphate Injection" @@
    "pxdnKL8X8aP" :> "Iron and Folic Acid Supplementation" @@
    "BT8vV7Z7anH" :> "Gentamicin Injection" @@
    "QYT9nPwdqOz" :> "Benzyl Penicillin Injection" @@
    "rEQd6IDeXWT" :> "Oxytocin Injection"

\* replace_strict(ANALYTIC_ID_MAP, default="Unknown Product")
AnalyticOf(analytic_id) ==
    IF analytic_id \in DOMAIN ANALYTIC_ID_MAP
    THEN ANALYTIC_ID_MAP[analytic_id]
    ELSE "Unknown Product"

\* The analytic names in ascending text order (code-point order).
AnalyticOrder ==
    << "2 Rod", "Benzyl Penicillin Injection", "COCs", "Chlorhexidine Gel",
       "Cycle Beads", "DMPA-IM", "DMPA-SC", "EC Pills", "Female Condoms",
       "Gentamicin Injection", "Hormonal IUCD", "Implanon",
       "Iron and Folic Acid Supplementation", "Jadelle", "Levoplant",
       "Magnesium Sulphate Injection", "Male Condoms", "Non-Hormonal IUCD",
       "Oxytocin Injection", "POPs", "Tetracycline Eye Ointment",
       "Unknown Product" >>

MethodOrder == << "Consumption", "Service", "Unknown Method" >>

\* County names of organisation_units and the national label, in text order.
OrgUnitOrder == << "Kenya", "Kiambu", "Nairobi" >>

RankIn(order, x) == CHOOSE i \in 1..Len(order) : order[i] = x

\* A multiplier as a fraction.
Frac(n, d) == [num |-> n, den |-> d]

\* value * factor, exact on values held in twentieths
Times(value, f) == (value * f.num) \div f.den

\* Mutant of the adjustment table: Male Condoms is missing from it.
AdjustmentNoMaleCondoms(analytic) ==
    CASE analytic = "COCs" -> Frac(5, 4)
      [] analytic = "POPs" -> Frac(1, 2)
      [] analytic = "Female Condoms" -> Frac(10, 1)
      [] OTHER -> Frac(1, 1)

\* replace_strict(FP_SERVICE_ADJUSTMENTS, default=1.0)
ServiceAdjustment(analytic) ==
    CASE analytic = "COCs" -> Frac(5, 4)
      [] analytic = "POPs" -> Frac(1, 2)
      [] analytic = "Female Condoms" -> Frac(10, 1)
      [] analytic = "Male Condoms" -> Frac(10, 1)
      [] OTHER -> Frac(1, 1)

\* str.contains of a literal
Contains(s, sub) ==
    \E i \in 1..(Len(s) - Len(sub) + 1) : SubSeq(s, i, i + Len(sub) - 1) = sub

\* Mutant of MethodOf: the consumption test comes first.
MethodConsumptionFirst(analytic_name) ==
    IF \/ Contains(analytic_name, <<"7", "4", "7">>)
       \/ Contains(analytic_name, <<"6", "4", "7">>)
    THEN "Consumption"
    ELSE IF Contains(analytic_name, <<"7", "1", "1">>) THEN "Service"
    ELSE "Unknown Method"

\* the when / then / otherwise chain deriving the method from analytic_name
MethodOf(analytic_name) ==
    IF Contains(analytic_name, <<"7", "1", "1">>) THEN "Service"
    ELSE IF \/ Contains(analytic_name, <<"7", "4", "7">>)
            \/ Contains(analytic_name, <<"6", "4", "7">>)
    THEN "Consumption"
    ELSE "Unknown Method"

\* the value column after the adjustment step
AdjustedValue(value, analytic, method) ==
    IF method = "Service" THEN Times(value, ServiceAdjustment(analytic)) ELSE value

RECURSIVE SumFnOver(_, _)
SumFnOver(f, S) ==
    IF S = {} THEN 0
    ELSE LET x == CHOOSE y \in S : TRUE IN f[x] + SumFnOver(f, S \ {x})

\* the sum of a function's values
SumFn(f) == SumFnOver(f, DOMAIN f)

\* the sort key (analytic, method, org_unit, period), compared position by
\* position
KeyLess(a, b) ==
    LET ra == <<RankIn(AnalyticOrder, a.analytic), RankIn(MethodOrder, a.method),
                RankIn(OrgUnitOrder, a.org_unit)>>
        rb == <<RankIn(AnalyticOrder, b.analytic), RankIn(MethodOrder, b.method),
                RankIn(OrgUnitOrder, b.org_unit)>>
    IN \/ ra[1] < rb[1]
       \/ ra[1] = rb[1] /\ ra[2] < rb[2]
       \/ ra[1] = rb[1] /\ ra[2] = rb[2] /\ ra[3] < rb[3]
       \/ ra = rb /\ a.period # b.period /\ DateLeq(a.period, b.period)

\* .sort([...]) of rows with distinct keys
RECURSIVE SortRows(_)
SortRows(S) ==
    IF S = {} THEN <<>>
    ELSE LET m == CHOOSE x \in S : \A y \in S \ {x} : KeyLess(x, y)
         IN <<m>> \o SortRows(S \ {m})

\* Mutant of the audit: the groups of identical rows are counted.
AuditCountingGroups(df) == Cardinality({r \in DOMAIN df : df[r] >= 2})

\* _audit_duplicates: int(df.is_duplicated().sum()), the number of rows that
\* have an identical row beside them; df is a bag of rows
audit_duplicates(df) ==
    SumFn([r \in {x \in DOMAIN df : df[x] >= 2} |-> df[r]])

\* raw rows that survive both inner joins
JoinedRows(raw_df, org_units, elements) ==
    {r \in DOMAIN raw_df :
        r.org_unit \in DOMAIN org_units /\ r.analytic_id \in DOMAIN elements}

\* the group key of a joined row: analytic, method, county, period
CountyKey(r, org_units, elements) ==
    [analytic |-> AnalyticOf(r.analytic_id),
     method |-> MethodOf(elements[r.analytic_id]),
     org_unit |-> org_units[r.org_unit],
     period |-> r.period]

\* _apply_transformations: joins, analytic and method, adjustment, county
\* group-by with sum, sort.  raw_df is a bag of observations.
apply_transformations(raw_df, org_units, elements) ==
    LET joined == JoinedRows(raw_df, org_units, elements)
        keys == {CountyKey(r, org_units, elements) : r \in joined}
        total(k) ==
            SumFn([r \in {x \in joined : CountyKey(x, org_units, elements) = k}
                      |-> raw_df[r] * AdjustedValue(r.value * ValueUnit,
                                                    k.analytic, k.method)])
    IN SortRows({[analytic |-> k.analytic, method |-> k.method,
                  org_unit |-> k.org_unit, period |-> k.period,
                  value |-> total(k)] : k \in keys})

\* Mutant of the national roll-up: the groups ignore the period.
NationalIgnoringPeriod(county_df) ==
    LET idx == 1..Len(county_df)
        keys == {[analytic |-> county_df[i].analytic, method |-> county_df[i].method,
                  period |-> county_df[i].period] : i \in idx}
        total(k) ==
            SumFn([i \in {j \in idx : /\ county_df[j].analytic = k.analytic
                                      /\ county_df[j].method = k.method}
                      |-> county_df[i].value])
    IN {[analytic |-> k.analytic, method |-> k.method, org_unit |-> "Kenya",
         period |-> k.period, value |-> total(k)] : k \in keys}

\* _generate_national_aggregates: the rows of the result; group_by gives no
\* row order.
generate_national_aggregates(county_df) ==
    LET idx == 1..Len(county_df)
        keys == {[analytic |-> county_df[i].analytic, method |-> county_df[i].method,
                  period |-> county_df[i].period] : i \in idx}
        total(k) ==
            SumFn([i \in {j \in idx : /\ county_df[j].analytic = k.analytic
                                      /\ county_df[j].method = k.method
                                      /\ county_df[j].period = k.period}
                      |-> county_df[i].value])
    IN {[analytic |-> k.analytic, method |-> k.method, org_unit |-> "Kenya",
         period |-> k.period, value |-> total(k)] : k \in keys}

\* the orders in which a set of rows can come out as a frame
Orderings(S) ==
    {f \in [1..Cardinality(S) -> S] :
        \A i \in 1..Cardinality(S), j \in 1..Cardinality(S) : f[i] = f[j] => i = j}

IsTwoRodService(r) == r.method = "Service" /\ r.analytic = "2 Rod"
NotTwoRodService(r) == ~IsTwoRodService(r)

\* Mutant of the split: Levoplant gets the Jadelle share too.
SplitLevoplantSameShare(df, jadelle_ratio) ==
    IF jadelle_ratio.num < 0 \/ jadelle_ratio.num > jadelle_ratio.den
    THEN [error |-> "ValueError", df |-> df]
    ELSE LET two_rod_df == SelectSeq(df, IsTwoRodService)
             jadelle_df == [i \in 1..Len(two_rod_df) |->
                 [two_rod_df[i] EXCEPT !.analytic = "Jadelle",
                                       !.value = Times(@, jadelle_ratio)]]
             levoplant_df == [i \in 1..Len(two_rod_df) |->
                 [two_rod_df[i] EXCEPT !.analytic = "Levoplant",
                                       !.value = Times(@, jadelle_ratio)]]
         IN IF two_rod_df = <<>>
            THEN [error |-> "none", df |-> df]
            ELSE [error |-> "none",
                  df |-> SelectSeq(df, NotTwoRodService) \o jadelle_df \o levoplant_df]

\* Mutant of the split: every 2 Rod row is taken, whatever its method.
SplitAnyMethod(df, jadelle_ratio) ==
    IF jadelle_ratio.num < 0 \/ jadelle_ratio.num > jadelle_ratio.den
    THEN [error |-> "ValueError", df |-> df]
    ELSE LET two_rod_df == SelectSeq(df, LAMBDA r : r.analytic = "2 Rod")
             jadelle_df == [i \in 1..Len(two_rod_df) |->
                 [two_rod_df[i] EXCEPT !.analytic = "Jadelle",
                                       !.value = Times(@, jadelle_ratio)]]
             levoplant_df == [i \in 1..Len(two_rod_df) |->
                 [two_rod_df[i] EXCEPT !.analytic = "Levoplant",
                                       !.value = Times(@, Frac(jadelle_ratio.den
                                                               - jadelle_ratio.num,
                                                               jadelle_ratio.den))]]
         IN IF two_rod_df = <<>>
            THEN [error |-> "none", df |-> df]
            ELSE [error |-> "none",
                  df |-> SelectSeq(df, LAMBDA r : r.analytic # "2 Rod")
                         \o jadelle_df \o levoplant_df]

\* run(): the split step is taken for Program.FP only
SplitApplies(program) == program = "FP"

\* _process_two_rod_split; jadelle_ratio is a fraction
process_two_rod_split(df, jadelle_ratio) ==
    IF jadelle_ratio.num < 0 \/ jadelle_ratio.num > jadelle_ratio.den
    THEN [error |-> "ValueError", df |-> df]
    ELSE LET two_rod_df == SelectSeq(df, IsTwoRodService)
             jadelle_df == [i \in 1..Len(two_rod_df) |->
                 [two_rod_df[i] EXCEPT !.analytic = "Jadelle",
                                       !.value = Times(@, jadelle_ratio)]]
             levoplant_df == [i \in 1..Len(two_rod_df) |->
                 [two_rod_df[i] EXCEPT !.analytic = "Levoplant",
                                       !.value = Times(@, Frac(jadelle_ratio.den
                                                               - jadelle_ratio.num,
                                                               jadelle_ratio.den))]]
         IN IF two_rod_df = <<>>
            THEN [error |-> "none", df |-> df]
            ELSE [error |-> "none",
                  df |-> SelectSeq(df, NotTwoRodService) \o jadelle_df \o levoplant_df]

\* the default jadelle_ratio, 0.8
DefaultJadelleRatio == Frac(4, 5)


\* --------------------------------------------- the transformation pipeline
VARIABLES
    tp_pc,          \* "new", "rejected", "ready", "fetched", "transformed", "done"
    tp_program,     \* self.program
    tp_in_table,    \* self.input_table_name
    tp_out_table,   \* self.output_table_name
    tp_error,       \* exception raised by __init__, "none" if none
    tp_raw,         \* data["raw_df"], a bag of observations
    tp_org_units,   \* data["org_units"]: facility -> county_name
    tp_elements,    \* data["elements"]: analytic_id -> analytic_name
    tp_county,      \* county_df
    tp_national,    \* national_df
    tp_final,       \* final_df
    tp_out,         \* the output table in the database
    tp_status,      \* "none", "running", "success", "failed"
    tp_raised,      \* the exception run() raised, NoError if none
    h_tp_write,     \* how the write of LOAD ended: "none", "ok", "failed", "raised"
    h_tp_dups       \* the duplicate count the audit logged, -1 before it ran

tpVars == <<tp_pc, tp_program, tp_in_table, tp_out_table, tp_error, tp_raw,
            tp_org_units, tp_elements, tp_county, tp_national, tp_final,
            tp_out, tp_status, tp_raised, h_tp_write, h_tp_dups>>

PipelineTables ==
    { <<"f", "p", "_", "r">>, <<"m", "n", "c", "h", "_", "r">>, <<"f", "p">> }

ObsIds ==
    { "cV4qoKSYiBs", "Fxb4iVJdw2g", "BQmcVE8fex4", "uHM6lzLXDBd",
      "TUHzoPGLM3t", "MsS41X1GEFr" }

\* F3 is a facility organisation_units does not hold.
ObsFacilities == { "F1", "F2", "F3" }

ObsPeriods == { MkDate(BaseYear, 12, 1), MkDate(BaseYear + 1, 1, 1) }

ObsValues == { 100 }

Observations ==
    [analytic_id : ObsIds, org_unit : ObsFacilities, period : ObsPeriods,
     value : ObsValues]

SeqToBag(s) ==
    [x \in SeqToSet(s) |-> Cardinality({i \in 1..Len(s) : s[i] = x})]

\* the contents the raw table may have: up to MaxObs rows, duplicates allowed
RawTables ==
    {SeqToBag(s) : s \in UNION {[1..k -> Observations] : k \in 0..MaxObs}}

\* SELECT facility_id as org_unit, county_name FROM organisation_units
OrgUnitsTable == "F1" :> "Nairobi" @@ "F2" :> "Kiambu"

Name711 == <<"M", "O", "H", "7", "1", "1">>
Name747 == <<"M", "O", "H", "7", "4", "7">>

\* SELECT id as analytic_id, name as analytic_name FROM data_elements:
\* the service elements named after MOH 711 and Jadelle after MOH 747, or
\* 2 Rod and Jadelle named after MOH 711, the others after MOH 747 and the
\* POPs element missing.
ElementTables ==
    { [i \in ObsIds |-> IF i = "MsS41X1GEFr" THEN Name747 ELSE Name711],
      [i \in ObsIds \ {"uHM6lzLXDBd"} |->
          IF i \in {"TUHzoPGLM3t", "MsS41X1GEFr"} THEN Name711 ELSE Name747] }

NoError == [type |-> "none", program |-> "none"]

\* A row an earlier run left in the output table.
OldSummaryRow ==
    [analytic |-> "Implanon", method |-> "Service", org_unit |-> "Kenya",
     period |-> MkDate(BaseYear, 11, 1), value |-> ValueUnit]

TpInit ==
    /\ tp_pc = "new"
    /\ tp_program = "FP"
    /\ tp_in_table = <<>>
    /\ tp_out_table = <<>>
    /\ tp_error = "none"
    /\ tp_raw = EmptyBag
    /\ tp_org_units = <<>>
    /\ tp_elements = <<>>
    /\ tp_county = <<>>
    /\ tp_national = <<>>
    /\ tp_final = <<>>
    /\ tp_out \in {AbsentTable, TableOf(<<OldSummaryRow>>)}
    /\ tp_status = "none"
    /\ tp_raised = NoError
    /\ h_tp_write = "none"
    /\ h_tp_dups = 0 - 1

\* DataTransformationPipeline.__init__: the guard is called with
\* self.program.value, first for the input and then for the output table.
TpConstruct(program, in_table, out_table) ==
    /\ tp_pc = "new"
    /\ tp_program' = program
    /\ tp_in_table' = in_table
    /\ tp_out_table' = out_table
    /\ LET first == ValidateSourceToDestination(StrArg(program), in_table)
       IN tp_error' = IF first # "ok" THEN first
                      ELSE ValidateSourceToDestination(StrArg(program), out_table)
    /\ tp_pc' = IF tp_error' = "ok" THEN "ready" ELSE "rejected"
    /\ UNCHANGED <<tp_raw, tp_org_units, tp_elements, tp_county, tp_national,
                   tp_final, tp_out, tp_status, tp_raised, h_tp_write, h_tp_dups>>

\* run(): _fetch_pipeline_data_from_db in a worker thread.  raw and elements
\* are what the database holds at that moment; ok = FALSE is a read failing,
\* which run() wraps and raises.
TpFetch(raw, elements, ok) ==
    /\ tp_pc = "ready"
    /\ IF ok
       THEN /\ tp_raw' = raw
            /\ tp_org_units' = OrgUnitsTable
            /\ tp_elements' = elements
            /\ tp_status' = "running"
            /\ tp_raised' = NoError
            /\ tp_pc' = "fetched"
       ELSE /\ UNCHANGED <<tp_raw, tp_org_units, tp_elements>>
            /\ tp_status' = "failed"
            /\ tp_raised' = [type |-> "RuntimeError", program |-> tp_program]
            /\ tp_pc' = "done"
    /\ UNCHANGED <<tp_program, tp_in_table, tp_out_table, tp_error, tp_county,
                   tp_national, tp_final, tp_out, h_tp_write, h_tp_dups>>

\* the fetch, for whatever the database holds
TpFetchAny ==
    /\ tp_pc = "ready"
    /\ \E raw \in RawTables, el \in ElementTables, ok \in BOOLEAN :
          TpFetch(raw, el, ok)

\* run(): audit, county aggregation, national roll-up, concatenation and the
\* FP-only split.  The roll-up comes in whatever row order group_by gives it.
TpTransform ==
    /\ tp_pc = "fetched"
    /\ tp_county' = apply_transformations(tp_raw, tp_org_units, tp_elements)
    /\ tp_national' \in Orderings(generate_national_aggregates(tp_county'))
    /\ tp_final' = IF SplitApplies(tp_program)
                   THEN process_two_rod_split(tp_county' \o tp_national',
                                              DefaultJadelleRatio).df
                   ELSE tp_county' \o tp_national'
    /\ h_tp_dups' = audit_duplicates(tp_raw)
    /\ tp_pc' = "transformed"
    /\ UNCHANGED <<tp_program, tp_in_table, tp_out_table, tp_error, tp_raw,
                   tp_org_units, tp_elements, tp_out, tp_status, tp_raised,
                   h_tp_write>>

\* run(): save_df_to_db(..., "replace") in a worker thread, the success
\* message, and the except clause wrapping whatever was raised.
TpLoad(w) ==
    /\ tp_pc = "transformed"
    /\ LET saved == save_df_to_db(tp_out, tp_final, "replace", w)
       IN /\ tp_out' = saved.table
          /\ h_tp_write' = IF saved.raised THEN "raised"
                           ELSE IF saved.written THEN "ok" ELSE "failed"
          /\ tp_status' = IF saved.raised THEN "failed" ELSE "success"
          /\ tp_raised' = IF saved.raised
                          THEN [type |-> "RuntimeError", program |-> tp_program]
                          ELSE NoError
    /\ tp_pc' = "done"
    /\ UNCHANGED <<tp_program, tp_in_table, tp_out_table, tp_error, tp_raw,
                   tp_org_units, tp_elements, tp_county, tp_national, tp_final,
                   h_tp_dups>>

\* ------------------------------------------------- the split rule by itself
VARIABLES
    sp_pc,          \* "input", "done"
    sp_df,          \* the frame handed to _process_two_rod_split
    sp_ratio,       \* jadelle_ratio
    sp_result,      \* what the call gave: the frame returned, or the error
    sp_program      \* the program of the pipeline whose run() made the call,
                    \* "none" for a call of the method by itself

spVars == <<sp_pc, sp_df, sp_ratio, sp_result, sp_program>>

SplitRowInputs ==
    [analytic : {"2 Rod", "Jadelle"}, method : {"Service", "Consumption"},
     org_unit : {"Nairobi", "Kenya"}, period : {MkDate(BaseYear, 12, 1)},
     value : {3 * ValueUnit, 100 * ValueUnit}]

\* ratios -0.2, 0, 0.2, ... 1, 1.2
SplitRatios == {Frac(k, 5) : k \in (0 - 1)..6}

SpInit ==
    /\ sp_pc = "input"
    /\ sp_df \in UNION {[1..k -> SplitRowInputs] : k \in 0..MaxSplitRows}
    /\ sp_ratio \in SplitRatios
    /\ sp_result = [error |-> "none", df |-> <<>>]
    /\ sp_program = "none"

\* a call of _process_two_rod_split(df, jadelle_ratio)
SpApply ==
    /\ sp_pc = "input"
    /\ sp_result' = process_two_rod_split(sp_df, sp_ratio)
    /\ sp_pc' = "done"
    /\ UNCHANGED <<sp_df, sp_ratio, sp_program>>

\* a pipeline of either program about to reach the split step of run() with
\* any frame
SpStepInit ==
    /\ sp_pc = "input"
    /\ sp_df \in UNION {[1..k -> SplitRowInputs] : k \in 0..MaxSplitRows}
    /\ sp_ratio = DefaultJadelleRatio
    /\ sp_result = [error |-> "none", df |-> <<>>]
    /\ sp_program \in {"FP", "MNCH"}

\* run(): "if self.program == Program.FP: final_df =
\* self._process_two_rod_split(final_df)"
SpRunStep ==
    /\ sp_pc = "input"
    /\ sp_program # "none"
    /\ sp_result' = IF SplitApplies(sp_program)
                    THEN process_two_rod_split(sp_df, sp_ratio)
                    ELSE [error |-> "none", df |-> sp_df]
    /\ sp_pc' = "done"
    /\ UNCHANGED <<sp_df, sp_ratio, sp_program>>

\* ------------------------------------------- the period planner by itself
VARIABLES
    pp_pc,          \* "input", "done"
    pp_start,       \* start
    pp_end,         \* end
    pp_periods      \* what generate_period_strings returned

ppVars == <<pp_pc, pp_start, pp_end, pp_periods>>

\* the number of a date's month, counted from year 0
MonthIndex(d) == d.y * 12 + (d.m - 1)

\* the first day of the month with that number
MonthOfIndex(n) == MkDate(n \div 12, (n % 12) + 1, 1)

\* November of BaseYear and the months after it, on the 1st, a day in the
\* middle and a day late in the month
PlannerDates ==
    {[MonthOfIndex(MonthIndex(MkDate(BaseYear, 11, 1)) + k) EXCEPT !.d = dd] :
        k \in 0..(PlannerSpan - 1), dd \in {1, MidDay, MidDay + 10}}

PpInit ==
    /\ pp_pc = "input"
    /\ pp_start \in PlannerDates
    /\ pp_end \in PlannerDates
    /\ pp_periods = <<>>

\* a call of generate_period_strings(start, end)
PpApply ==
    /\ pp_pc = "input"
    /\ pp_periods' = generate_period_strings(pp_start, pp_end)
    /\ pp_pc' = "done"
    /\ UNCHANGED <<pp_start, pp_end>>

\* ------------------------------------------ the hierarchy flattener by itself
\* A row of the long organisation-unit frame; parent_id of the root is null.
OrgRow(id, parent_id, level) ==
    [id |-> id, name |-> [of |-> id], parent_id |-> parent_id, level |-> level]

NullId == <<"null", 0>>

WardOf(k) == IF k % 2 = 1 THEN <<"W", 1>> ELSE <<"W", 2>>

\* One country, one county, two sub-counties with a ward each, facilities
\* F1, F2, ... hanging off the wards in turn, and a level-5 row X whose parent
\* is a sub-county; in the order the remote lists them.
TreeRowList ==
    << OrgRow(<<"K", 1>>, NullId, 1), OrgRow(<<"C", 1>>, <<"K", 1>>, 2),
       OrgRow(<<"S", 1>>, <<"C", 1>>, 3), OrgRow(<<"S", 2>>, <<"C", 1>>, 3),
       OrgRow(<<"W", 1>>, <<"S", 1>>, 4), OrgRow(<<"W", 2>>, <<"S", 2>>, 4) >>
    \o [k \in 1..TreeFacilities |-> OrgRow(<<"F", k>>, WardOf(k), 5)]
    \o << OrgRow(<<"X", 1>>, <<"S", 1>>, 5) >>

Reverse(s) == [i \in 1..Len(s) |-> s[Len(s) + 1 - i]]

\* The frames the flattener is handed: any part of the tree, as listed or in
\* reverse, and possibly with the first ward listed a second time.
HierarchyInputs ==
    {LET part == SelectSeq(TreeRowList, LAMBDA r : r \in keep)
         listed == IF rev THEN Reverse(part) ELSE part
     IN IF dup THEN listed \o << OrgRow(<<"W", 1>>, <<"S", 1>>, 4) >> ELSE listed :
        keep \in SUBSET SeqToSet(TreeRowList), rev \in BOOLEAN, dup \in BOOLEAN}

\* df.filter(pl.col("level") == n)
FilterLevel(df, n) == SelectSeq(df, LAMBDA r : r.level = n)

\* left.join(right, on=key, how="inner"): for every left row, in order, one
\* row per right row with the same key
RECURSIVE InnerJoinFrom(_, _, _, _)
InnerJoinFrom(left, right, key, i) ==
    IF i > Len(left) THEN <<>>
    ELSE LET hits == SelectSeq(right, LAMBDA r : r[key] = left[i][key])
         IN [j \in 1..Len(hits) |-> left[i] @@ hits[j]]
            \o InnerJoinFrom(left, right, key, i + 1)

InnerJoin(left, right, key) == InnerJoinFrom(left, right, key, 1)

\* Mutant of the flattener: the sub-county level is joined on the ward's own
\* id column, so it is never joined at all.
FlattenWithoutLevel3(df) ==
    LET level_5_df == [i \in 1..Len(FilterLevel(df, 5)) |->
            [facility_id |-> FilterLevel(df, 5)[i].id,
             facility_name |-> FilterLevel(df, 5)[i].name,
             ward_id |-> FilterLevel(df, 5)[i].parent_id]]
        level_4_df == [i \in 1..Len(FilterLevel(df, 4)) |->
            [ward_id |-> FilterLevel(df, 4)[i].id,
             ward_name |-> FilterLevel(df, 4)[i].name,
             sub_county_id |-> FilterLevel(df, 4)[i].parent_id]]
    IN InnerJoin(level_5_df, level_4_df, "ward_id")

\* make_orgunits_hierarchy
make_orgunits_hierarchy(df) ==
    LET level_5_df == [i \in 1..Len(FilterLevel(df, 5)) |->
            [facility_id |-> FilterLevel(df, 5)[i].id,
             facility_name |-> FilterLevel(df, 5)[i].name,
             ward_id |-> FilterLevel(df, 5)[i].parent_id]]
        level_4_df == [i \in 1..Len(FilterLevel(df, 4)) |->
            [ward_id |-> FilterLevel(df, 4)[i].id,
             ward_name |-> FilterLevel(df, 4)[i].name,
             sub_county_id |-> FilterLevel(df, 4)[i].parent_id]]
        level_3_df == [i \in 1..Len(FilterLevel(df, 3)) |->
            [sub_county_id |-> FilterLevel(df, 3)[i].id,
             sub_county_name |-> FilterLevel(df, 3)[i].name,
             county_id |-> FilterLevel(df, 3)[i].parent_id]]
        level_2_df == [i \in 1..Len(FilterLevel(df, 2)) |->
            [county_id |-> FilterLevel(df, 2)[i].id,
             county_name |-> FilterLevel(df, 2)[i].name,
             country_id |-> FilterLevel(df, 2)[i].parent_id]]
        level_1_df == [i \in 1..Len(FilterLevel(df, 1)) |->
            [country_id |-> FilterLevel(df, 1)[i].id,
             country_name |-> FilterLevel(df, 1)[i].name]]
    IN InnerJoin(InnerJoin(InnerJoin(InnerJoin(level_5_df, level_4_df, "ward_id"),
                                     level_3_df, "sub_county_id"),
                           level_2_df, "county_id"),
                 level_1_df, "country_id")

VARIABLES
    hf_pc,          \* "input", "done"
    hf_df,          \* the frame handed to make_orgunits_hierarchy
    hf_out,         \* the frame it returned
    hf_removed,     \* the level-3 row taken out of the frame since, if any
    hf_before       \* the frame returned before the row was taken out

hfVars == <<hf_pc, hf_df, hf_out, hf_removed, hf_before>>

NoRow == OrgRow(NullId, NullId, 0)

HfInit ==
    /\ hf_pc = "input"
    /\ hf_df \in HierarchyInputs
    /\ hf_out = <<>>
    /\ hf_removed = NoRow
    /\ hf_before = <<>>

\* a call of make_orgunits_hierarchy(df)
HfApply ==
    /\ hf_pc = "input"
    /\ hf_out' = make_orgunits_hierarchy(hf_df)
    /\ hf_pc' = "done"
    /\ UNCHANGED <<hf_df, hf_removed, hf_before>>

\* the remote no longer lists one level-3 row; the frame is flattened anew
HfRemoveLevel3(i) ==
    /\ hf_pc = "done"
    /\ hf_removed = NoRow
    /\ i \in 1..Len(hf_df)
    /\ hf_df[i].level = 3
    /\ hf_removed' = hf_df[i]
    /\ hf_before' = hf_out
    /\ hf_df' = SelectSeq(hf_df, LAMBDA r : r # hf_df[i])
    /\ hf_out' = <<>>
    /\ hf_pc' = "input"

\* ------------------------------------------------ runs on the event loop
\* A step of a run() coroutine: what it calls, whether the call blocks on
\* external I/O, and whether it is awaited through asyncio.to_thread or called
\* directly from the coroutine.
LoopStep(op, io, via) == [op |-> op, io |-> io, via |-> via]

RECURSIVE BatchSteps(_)
BatchSteps(n) ==
    IF n = 0 THEN <<>>
    ELSE << LoopStep("remote_query", TRUE, "direct"),
            LoopStep("db_append", TRUE, "direct") >> \o BatchSteps(n - 1)

\* KhisHistoricalDataExtractor.run: every call is made directly
ExtractorProgram(batches) ==
    << LoopStep("db_read", TRUE, "direct"), LoopStep("db_delete", TRUE, "direct") >>
    \o BatchSteps(batches)

\* DataTransformationPipeline.run: the fetch and the save are awaited through
\* asyncio.to_thread, the transformations run in the coroutine
PipelineProgram ==
    << LoopStep("db_read", TRUE, "to_thread"),
       LoopStep("transform", FALSE, "direct"),
       LoopStep("db_write", TRUE, "to_thread") >>

\* KhisMetadataExtractor.run: three extractions and three saves, all direct
MetadataProgram ==
    << LoopStep("remote_query", TRUE, "direct"),
       LoopStep("remote_query", TRUE, "direct"),
       LoopStep("remote_query", TRUE, "direct"),
       LoopStep("db_write", TRUE, "direct"),
       LoopStep("db_write", TRUE, "direct"),
       LoopStep("db_write", TRUE, "direct") >>

LoopPrograms ==
    {ExtractorProgram(b) : b \in 1..MaxLoopBatches}
    \cup {PipelineProgram, MetadataProgram}

VARIABLES
    el_prog,        \* the steps of the run() coroutine that was scheduled
    el_pos,         \* the step the coroutine is at
    el_run,         \* the task: "none", "ready", "on_loop", "awaiting", "done"
    el_io,          \* its blocking call in progress: "none", "on_loop", "in_thread"
    el_loop,        \* what the loop's thread is running: "free", "run", "other"
    el_other,       \* another request on the same loop: "none", "ready"
    el_served       \* requests the loop has served so far

elVars == <<el_prog, el_pos, el_run, el_io, el_loop, el_other, el_served>>

ElInit ==
    /\ el_prog = <<>>
    /\ el_pos = 1
    /\ el_run = "none"
    /\ el_io = "none"
    /\ el_loop = "free"
    /\ el_other = "none"
    /\ el_served = 0

\* run_in_bg: asyncio.create_task(self.run(...))
ElSchedule(prog) ==
    /\ el_run = "none"
    /\ el_prog' = prog
    /\ el_run' = "ready"
    /\ UNCHANGED <<el_pos, el_io, el_loop, el_other, el_served>>

\* another request arrives for the loop
ElRequest ==
    /\ el_other = "none"
    /\ el_served < MaxRequests
    /\ el_other' = "ready"
    /\ UNCHANGED <<el_prog, el_pos, el_run, el_io, el_loop, el_served>>

\* the loop takes up the run task
ElResumeRun ==
    /\ el_loop = "free"
    /\ el_run = "ready"
    /\ el_loop' = "run"
    /\ el_run' = "on_loop"
    /\ UNCHANGED <<el_prog, el_pos, el_io, el_other, el_served>>

\* the coroutine reaches its next call
ElRunCall ==
    /\ el_run = "on_loop"
    /\ el_io = "none"
    /\ el_pos <= Len(el_prog)
    /\ IF el_prog[el_pos].via = "to_thread"
       THEN /\ el_io' = "in_thread"
            /\ el_run' = "awaiting"
            /\ el_loop' = "free"
            /\ UNCHANGED el_pos
       ELSE IF el_prog[el_pos].io
       THEN /\ el_io' = "on_loop"
            /\ UNCHANGED <<el_run, el_loop, el_pos>>
       ELSE /\ el_pos' = el_pos + 1
            /\ UNCHANGED <<el_run, el_loop, el_io>>
    /\ UNCHANGED <<el_prog, el_other, el_served>>

\* the blocking call returns
ElIoReturn ==
    /\ el_io # "none"
    /\ el_io' = "none"
    /\ el_pos' = el_pos + 1
    /\ el_run' = IF el_io = "in_thread" THEN "ready" ELSE el_run
    /\ UNCHANGED <<el_prog, el_loop, el_other, el_served>>

\* the coroutine returns
ElRunFinish ==
    /\ el_run = "on_loop"
    /\ el_io = "none"
    /\ el_pos > Len(el_prog)
    /\ el_run' = "done"
    /\ el_loop' = "free"
    /\ UNCHANGED <<el_prog, el_pos, el_io, el_other, el_served>>

\* the loop takes up the other request
ElServe ==
    /\ el_loop = "free"
    /\ el_other = "ready"
    /\ el_loop' = "other"
    /\ UNCHANGED <<el_prog, el_pos, el_run, el_io, el_other, el_served>>

\* the other request is answered
ElServed ==
    /\ el_loop = "other"
    /\ el_loop' = "free"
    /\ el_other' = "none"
    /\ el_served' = el_served + 1
    /\ UNCHANGED <<el_prog, el_pos, el_run, el_io>>

\* ------------------------------------------- two extractor runs side by side
VARIABLES
    cx_db,          \* table name -> table, shared by the two runs
    cx_db0,         \* the database before either run
    cx_runs,        \* "A", "B" -> the state of that extractor and its run
    cx_trace        \* which run took each database step so far

cxVars == <<cx_db, cx_db0, cx_runs, cx_trace>>

CxIds == {"A", "B"}

\* run A extracts FP, run B extracts MNCH
CxProgram(i) == IF i = "A" THEN "FP" ELSE "MNCH"

\* the facility list both runs read from organisation_units
CxOrgUnits == [i \in 1..MaxFacilities |-> i]

\* date ranges from the 1st of a month to the middle of the same or a later one
CxRanges ==
    {<<s0, e0>> \in DateInputs \X DateInputs :
        s0.d = 1 /\ e0.d = MidDay /\ DateLeq(s0, e0)}

CxNewRun(i) ==
    [program |-> CxProgram(i), table |-> <<>>, pc |-> "new", error |-> "none",
     target |-> <<>>, start_str |-> <<>>, end_str |-> <<>>, index |-> 0]

CxInit ==
    /\ \E t \in InitialTables : cx_db = [n \in TableNames |-> t]
    /\ cx_db0 = cx_db
    /\ cx_runs = [i \in CxIds |-> CxNewRun(i)]
    /\ cx_trace = <<>>

\* __init__ with the guard, and run() up to the cleanup
CxLaunch(i, table, start, end) ==
    /\ cx_runs[i].pc = "new"
    /\ LET error == ValidateSourceToDestination(EnumArg(cx_runs[i].program), table)
       IN cx_runs' = [cx_runs EXCEPT ![i] =
              [@ EXCEPT !.table = table,
                        !.error = error,
                        !.pc = IF error = "ok" THEN "cleanup" ELSE "rejected",
                        !.target = generate_period_strings(start, end),
                        !.start_str = first_day_of_month(start),
                        !.end_str = first_day_of_month(end)]]
    /\ UNCHANGED <<cx_db, cx_db0, cx_trace>>

\* the table after _pre_cleanup of a run
CxAfterCleanup(tbl, run) ==
    IF CleanupResult(run.target, tbl, "ok") = "deleted"
    THEN TableOf(RowsNotInPeriods(tbl.rows, run.target))
    ELSE tbl

\* the table after one iteration of the batch loop of a run
CxAfterBatch(tbl, run, index) ==
    LET chunk == DfSlice(CxOrgUnits, index, MaxChunk)
        res == extract_historical_data_from_khis("ok", chunk, run.start_str,
                                                 run.end_str, Facilities)
    IN IF Cardinality(res.rows) > 0
       THEN save_df_to_db(tbl, SetToBag(res.rows), "append", "ok").table
       ELSE tbl

\* run(): the cleanup of run i
CxCleanup(i) ==
    /\ cx_runs[i].pc = "cleanup"
    /\ cx_db' = [cx_db EXCEPT ![cx_runs[i].table] = CxAfterCleanup(@, cx_runs[i])]
    /\ cx_runs' = [cx_runs EXCEPT ![i].pc = "batch"]
    /\ cx_trace' = Append(cx_trace, i)
    /\ UNCHANGED cx_db0

\* run(): one iteration of the batch loop of run i
CxBatch(i) ==
    /\ cx_runs[i].pc = "batch"
    /\ cx_db' = [cx_db EXCEPT ![cx_runs[i].table] =
                    CxAfterBatch(@, cx_runs[i], cx_runs[i].index)]
    /\ cx_runs' = [cx_runs EXCEPT
                     ![i].index = @ + MaxChunk,
                     ![i].pc = IF cx_runs[i].index + MaxChunk >= Len(CxOrgUnits)
                               THEN "done" ELSE "batch"]
    /\ cx_trace' = Append(cx_trace, i)
    /\ UNCHANGED cx_db0

\* a whole run executed with nothing in between
RECURSIVE CxBatchesFrom(_, _, _)
CxBatchesFrom(tbl, run, index) ==
    IF index >= Len(CxOrgUnits) THEN tbl
    ELSE CxBatchesFrom(CxAfterBatch(tbl, run, index), run, index + MaxChunk)

CxRunAlone(dbv, run) ==
    [dbv EXCEPT ![run.table] = CxBatchesFrom(CxAfterCleanup(@, run), run, 0)]

\* ------------------------------------------------------ metadata refresh
VARIABLES
    md_pc,          \* "new", "extract", "save", "done", "raised"
    md_next,        \* position in MdDatasets of the dataset handled next
    md_db,          \* dataset -> its table
    md_db0,         \* the tables when run() was called
    md_frames,      \* dataset -> what its extract_* method returned
    md_outcome,     \* dataset -> how its request ended, "none" before it
    md_wrote        \* dataset -> what run() did about saving it

mdVars == <<md_pc, md_next, md_db, md_db0, md_frames, md_outcome, md_wrote>>

\* the datasets in the order run() extracts and saves them
MdDatasets == << "organisation_units", "data_elements", "indicators" >>

\* the return value None
NoFrame == [none |-> TRUE, df |-> <<>>]
FrameOf(df) == [none |-> FALSE, df |-> df]

\* how a metadata request can end: "transport" is make_api_call raising,
\* "invalid_json" response.json() raising, "not_a_list" _ensure_list raising
\* and "bad_shape" the frame construction or the rename raising
MetadataOutcomes == {"ok", "transport", "invalid_json", "not_a_list", "bad_shape"}

\* the dataElements list of the remote
DataElementsPayload ==
    << [id |-> <<"de", 1>>, name |-> <<"n", 1>>, shortName |-> <<"s", 1>>,
        displayName |-> <<"d", 1>>],
       [id |-> <<"de", 2>>, name |-> <<"n", 2>>, shortName |-> <<"s", 2>>,
        displayName |-> <<"d", 2>>] >>

\* the indicators list of the remote
IndicatorsPayload == << [id |-> <<"in", 1>>, name |-> <<"n", 1>>] >>

\* Mutant of extract_indicators: a failure gives an empty frame, as the
\* per-chunk extraction does, instead of None.
ExtractIndicatorsEmptyOnFailure(o) ==
    IF o = "ok" THEN FrameOf(IndicatorsPayload) ELSE FrameOf(<<>>)

\* extract_organisation_units: parent.id becomes parent_id and the long
\* frame is flattened; any exception gives None
extract_organisation_units(o) ==
    IF o = "ok" THEN FrameOf(make_orgunits_hierarchy(TreeRowList)) ELSE NoFrame

\* extract_data_elements: shortName and displayName are renamed
extract_data_elements(o) ==
    IF o = "ok"
    THEN FrameOf([i \in 1..Len(DataElementsPayload) |->
                    [id |-> DataElementsPayload[i].id,
                     name |-> DataElementsPayload[i].name,
                     short_name |-> DataElementsPayload[i].shortName,
                     display_name |-> DataElementsPayload[i].displayName]])
    ELSE NoFrame

\* extract_indicators
extract_indicators(o) ==
    IF o = "ok" THEN FrameOf(IndicatorsPayload) ELSE NoFrame

\* the extract_* method of a dataset
ExtractDataset(ds, o) ==
    IF ds = "organisation_units" THEN extract_organisation_units(o)
    ELSE IF ds = "data_elements" THEN extract_data_elements(o)
    ELSE extract_indicators(o)

\* what an earlier refresh left in a table
OldMetadataRow == [id |-> <<"old", 0>>, name |-> <<"n", 0>>]

MdInit ==
    /\ md_pc = "new"
    /\ md_next = 1
    /\ md_db \in [SeqToSet(MdDatasets) ->
                    {AbsentTable, TableOf(SetToBag({OldMetadataRow}))}]
    /\ md_db0 = md_db
    /\ md_frames = [ds \in SeqToSet(MdDatasets) |-> NoFrame]
    /\ md_outcome = [ds \in SeqToSet(MdDatasets) |-> "none"]
    /\ md_wrote = [ds \in SeqToSet(MdDatasets) |-> "none"]

\* run() is called
MdStart ==
    /\ md_pc = "new"
    /\ md_pc' = "extract"
    /\ UNCHANGED <<md_next, md_db, md_db0, md_frames, md_outcome, md_wrote>>

\* run(): the next of the three extract_* calls, ending as o
MdExtract(o) ==
    /\ md_pc = "extract"
    /\ md_frames' = [md_frames EXCEPT ![MdDatasets[md_next]] =
                         ExtractDataset(MdDatasets[md_next], o)]
    /\ md_outcome' = [md_outcome EXCEPT ![MdDatasets[md_next]] = o]
    /\ IF md_next < Len(MdDatasets)
       THEN md_next' = md_next + 1 /\ md_pc' = md_pc
       ELSE md_next' = 1 /\ md_pc' = "save"
    /\ UNCHANGED <<md_db, md_db0, md_wrote>>

\* run(): the next of the three "if df is not None: save_df_to_db(...)"
\* blocks, the write ending as w
MdSave(w) ==
    /\ md_pc = "save"
    /\ LET ds == MdDatasets[md_next]
           frame == md_frames[ds]
           saved == save_df_to_db(md_db[ds], SeqToBag(frame.df), "replace", w)
       IN /\ md_db' = IF frame.none THEN md_db
                      ELSE [md_db EXCEPT ![ds] = saved.table]
          /\ md_wrote' = [md_wrote EXCEPT ![ds] =
                             IF frame.none THEN "skipped"
                             ELSE IF saved.raised THEN "raised"
                             ELSE IF saved.written THEN "ok"
                             ELSE "failed"]
          /\ IF ~frame.none /\ saved.raised
             THEN md_pc' = "raised" /\ md_next' = md_next
             ELSE IF md_next < Len(MdDatasets)
             THEN md_pc' = md_pc /\ md_next' = md_next + 1
             ELSE md_pc' = "done" /\ md_next' = md_next
    /\ UNCHANGED <<md_db0, md_frames, md_outcome>>

\* ----------------------------------------------- the method of a name
VARIABLES
    mt_pc,          \* "input", "done"
    mt_name,        \* the analytic_name of a joined row
    mt_method       \* the method column derived from it

mtVars == <<mt_pc, mt_name, mt_method>>

\* the characters the form numbers are written with, and one other
NameChars == {"1", "4", "6", "7", "x"}

\* display names of up to MaxNameLen characters
NameInputs == UNION {[1..n -> NameChars] : n \in 0..MaxNameLen}

MtInit ==
    /\ mt_pc = "input"
    /\ mt_name \in NameInputs
    /\ mt_method = "none"

\* the with_columns(method=...) step on a row with this name
MtApply ==
    /\ mt_pc = "input"
    /\ mt_method' = MethodOf(mt_name)
    /\ mt_pc' = "done"
    /\ UNCHANGED mt_name

\* the components a specification leaves alone
ExIdle ==
    /\ ex_pc = "new" /\ ex_program = "FP" /\ ex_table = <<>> /\ ex_chunk = 1
    /\ ex_error = "none" /\ db = [n \in TableNames |-> AbsentTable]
    /\ org_units_tbl = <<>> /\ remote = {} /\ r_start = NoDate /\ r_end = NoDate
    /\ r_target = <<>> /\ r_start_str = <<>> /\ r_end_str = <<>>
    /\ r_org_units = <<>> /\ r_index = 0 /\ r_total = 0 /\ r_status = "none"
    /\ runs = 0 /\ h_cleanup = "none" /\ h_batches = <<>>
    /\ h_start_tbl = AbsentTable /\ h_prev = NoPrev

TpIdle ==
    /\ tp_pc = "new" /\ tp_program = "FP" /\ tp_in_table = <<>>
    /\ tp_out_table = <<>> /\ tp_error = "none" /\ tp_raw = EmptyBag
    /\ tp_org_units = <<>> /\ tp_elements = <<>> /\ tp_county = <<>>
    /\ tp_national = <<>> /\ tp_final = <<>> /\ tp_out = AbsentTable
    /\ tp_status = "none" /\ tp_raised = NoError /\ h_tp_write = "none"
    /\ h_tp_dups = 0 - 1

SpIdle ==
    /\ sp_pc = "input" /\ sp_df = <<>> /\ sp_ratio = DefaultJadelleRatio
    /\ sp_result = [error |-> "none", df |-> <<>>] /\ sp_program = "none"

PpIdle ==
    /\ pp_pc = "input" /\ pp_start = NoDate /\ pp_end = NoDate
    /\ pp_periods = <<>>

HfIdle ==
    /\ hf_pc = "input" /\ hf_df = <<>> /\ hf_out = <<>>
    /\ hf_removed = NoRow /\ hf_before = <<>>

ElIdle == ElInit

CxIdle ==
    /\ cx_db = [n \in TableNames |-> AbsentTable]
    /\ cx_db0 = cx_db
    /\ cx_runs = [i \in CxIds |-> CxNewRun(i)]
    /\ cx_trace = <<>>

MdIdle ==
    /\ md_pc = "new" /\ md_next = 1
    /\ md_db = [ds \in SeqToSet(MdDatasets) |-> AbsentTable]
    /\ md_db0 = md_db
    /\ md_frames = [ds \in SeqToSet(MdDatasets) |-> NoFrame]
    /\ md_outcome = [ds \in SeqToSet(MdDatasets) |-> "none"]
    /\ md_wrote = [ds \in SeqToSet(MdDatasets) |-> "none"]

MtIdle == mt_pc = "input" /\ mt_name = <<>> /\ mt_method = "none"

vars == <<exVars, tpVars, spVars, ppVars, hfVars, elVars, cxVars, mdVars, mtVars>>

\* what the actions of one component leave alone
exFrame == <<tpVars, spVars, ppVars, hfVars, elVars, cxVars, mdVars, mtVars>>
tpFrame == <<exVars, spVars, ppVars, hfVars, elVars, cxVars, mdVars, mtVars>>
spFrame == <<exVars, tpVars, ppVars, hfVars, elVars, cxVars, mdVars, mtVars>>
ppFrame == <<exVars, tpVars, spVars, hfVars, elVars, cxVars, mdVars, mtVars>>
hfFrame == <<exVars, tpVars, spVars, ppVars, elVars, cxVars, mdVars, mtVars>>
elFrame == <<exVars, tpVars, spVars, ppVars, hfVars, cxVars, mdVars, mtVars>>
cxFrame == <<exVars, tpVars, spVars, ppVars, hfVars, elVars, mdVars, mtVars>>
mdFrame == <<exVars, tpVars, spVars, ppVars, hfVars, elVars, cxVars, mtVars>>
mtFrame == <<exVars, tpVars, spVars, ppVars, hfVars, elVars, cxVars, mdVars>>

\* the extractor: one instance, one run
Next ==
    \/ \E p \in Programs, t \in TableNames, c \in 1..MaxChunk :
          ExConstruct(p, t, c) /\ UNCHANGED exFrame
    \/ \E s \in DateInputs, e \in DateInputs, up \in BOOLEAN :
          ExFirstRun(s, e, up) /\ UNCHANGED exFrame
    \/ \E o \in CleanupOutcomes : ExCleanup(o) /\ UNCHANGED exFrame
    \/ \E q \in QueryOutcomes, w \in WriteOutcomes :
          ExBatch(q, w) /\ UNCHANGED exFrame

Init == ExInit /\ TpIdle /\ SpIdle /\ PpIdle /\ HfIdle /\ ElIdle /\ CxIdle /\ MdIdle /\ MtIdle

Spec == Init /\ [][Next]_vars

\* Two runs in a row with the same arguments, the remote answering every query
\* and every database call succeeding.
RerunNext ==
    \/ \E p \in Programs, t \in TableNames, c \in 1..MaxChunk :
          ExConstruct(p, t, c) /\ UNCHANGED exFrame
    \/ \E s \in DateInputs, e \in DateInputs :
          ExFirstRun(s, e, TRUE) /\ UNCHANGED exFrame
    \/ ExRerun /\ UNCHANGED exFrame
    \/ ExCleanup("ok") /\ UNCHANGED exFrame
    \/ ExBatch("ok", "ok") /\ UNCHANGED exFrame

SpecRerun == Init /\ [][RerunNext]_vars

\* A run whose queries end in any of the ways the extraction function
\* handles, the database calls succeeding.
PayloadNext ==
    \/ \E p \in Programs, t \in TableNames, c \in 1..MaxChunk :
          ExConstruct(p, t, c) /\ UNCHANGED exFrame
    \/ \E s \in DateInputs, e \in DateInputs :
          ExFirstRun(s, e, TRUE) /\ UNCHANGED exFrame
    \/ ExCleanup("ok") /\ UNCHANGED exFrame
    \/ \E q \in PayloadOutcomes : ExBatch(q, "ok") /\ UNCHANGED exFrame

SpecPayload == Init /\ [][PayloadNext]_vars

\* a step of a run that has started: the cleanup or one loop iteration
RunStep ==
    \/ \E o \in CleanupOutcomes : ExCleanup(o) /\ UNCHANGED exFrame
    \/ \E q \in QueryOutcomes, w \in WriteOutcomes :
          ExBatch(q, w) /\ UNCHANGED exFrame

\* one run over a single month, under every outcome of its calls
ProgressNext ==
    \/ \E p \in Programs, t \in TableNames, c \in 1..MaxChunk :
          ExConstruct(p, t, c) /\ UNCHANGED exFrame
    \/ \E s \in InputMonths, up \in BOOLEAN :
          ExFirstRun(s, s, up) /\ UNCHANGED exFrame
    \/ RunStep

\* The extractor with a run that keeps executing: every database call
\* returns or raises, and every query ends within the timeout of
\* requests.get.
SpecProgress == Init /\ [][ProgressNext]_vars /\ WF_vars(RunStep)

\* the transformation pipeline: one instance, one run
TransformNext ==
    \/ \E p \in Programs, i \in PipelineTables, o \in PipelineTables :
          TpConstruct(p, i, o) /\ UNCHANGED tpFrame
    \/ TpFetchAny /\ UNCHANGED tpFrame
    \/ TpTransform /\ UNCHANGED tpFrame
    \/ \E w \in WriteOutcomes : TpLoad(w) /\ UNCHANGED tpFrame

TransformInit == TpInit /\ ExIdle /\ SpIdle /\ PpIdle /\ HfIdle /\ ElIdle /\ CxIdle /\ MdIdle /\ MtIdle

SpecTransform == TransformInit /\ [][TransformNext]_vars

\* the split rule applied to any frame with any ratio
SplitNext == SpApply /\ UNCHANGED spFrame

SplitInit == SpInit /\ ExIdle /\ TpIdle /\ PpIdle /\ HfIdle /\ ElIdle /\ CxIdle /\ MdIdle /\ MtIdle

SpecSplit == SplitInit /\ [][SplitNext]_vars

\* the split step of run() on any frame, for either program
SplitStepNext == SpRunStep /\ UNCHANGED spFrame

SplitStepInit ==
    SpStepInit /\ ExIdle /\ TpIdle /\ PpIdle /\ HfIdle /\ ElIdle /\ CxIdle
               /\ MdIdle /\ MtIdle

SpecSplitStep == SplitStepInit /\ [][SplitStepNext]_vars

\* the period planner applied to any pair of dates
PlannerNext == PpApply /\ UNCHANGED ppFrame

PlannerInit == PpInit /\ ExIdle /\ TpIdle /\ SpIdle /\ HfIdle /\ ElIdle /\ CxIdle /\ MdIdle /\ MtIdle

SpecPlanner == PlannerInit /\ [][PlannerNext]_vars

\* the hierarchy flattener applied to a frame, and again after a level-3 row
\* has gone
HierarchyNext ==
    \/ HfApply /\ UNCHANGED hfFrame
    \/ \E i \in 1..Len(hf_df) : HfRemoveLevel3(i) /\ UNCHANGED hfFrame

HierarchyInit == HfInit /\ ExIdle /\ TpIdle /\ SpIdle /\ PpIdle /\ ElIdle /\ CxIdle /\ MdIdle /\ MtIdle

SpecHierarchy == HierarchyInit /\ [][HierarchyNext]_vars

\* one run scheduled on the event loop, with other requests arriving
LoopNext ==
    \/ \E prog \in LoopPrograms : ElSchedule(prog) /\ UNCHANGED elFrame
    \/ ElRequest /\ UNCHANGED elFrame
    \/ ElResumeRun /\ UNCHANGED elFrame
    \/ ElRunCall /\ UNCHANGED elFrame
    \/ ElIoReturn /\ UNCHANGED elFrame
    \/ ElRunFinish /\ UNCHANGED elFrame
    \/ ElServe /\ UNCHANGED elFrame
    \/ ElServed /\ UNCHANGED elFrame

LoopInit == ElInit /\ ExIdle /\ TpIdle /\ SpIdle /\ PpIdle /\ HfIdle /\ CxIdle /\ MdIdle /\ MtIdle

SpecLoop == LoopInit /\ [][LoopNext]_vars

\* an FP run and an MNCH run whose database steps interleave in any way
ConcurrentNext ==
    \/ \E i \in CxIds, t \in TableNames, r \in CxRanges :
          CxLaunch(i, t, r[1], r[2]) /\ UNCHANGED cxFrame
    \/ \E i \in CxIds : CxCleanup(i) /\ UNCHANGED cxFrame
    \/ \E i \in CxIds : CxBatch(i) /\ UNCHANGED cxFrame

ConcurrentInit ==
    CxInit /\ ExIdle /\ TpIdle /\ SpIdle /\ PpIdle /\ HfIdle /\ ElIdle /\ MdIdle /\ MtIdle

SpecConcurrent == ConcurrentInit /\ [][ConcurrentNext]_vars

\* two instances of the FP extractor, as two run_in_bg tasks or two server
\* processes give
CxSameProgramInit ==
    /\ \E t \in InitialTables : cx_db = [n \in TableNames |-> t]
    /\ cx_db0 = cx_db
    /\ cx_runs = [i \in CxIds |-> [CxNewRun(i) EXCEPT !.program = "FP"]]
    /\ cx_trace = <<>>

\* two FP runs whose database steps interleave in any way
SameProgramNext ==
    \/ \E i \in CxIds, t \in TableNames, r \in CxRanges :
          CxLaunch(i, t, r[1], r[2]) /\ UNCHANGED cxFrame
    \/ \E i \in CxIds : CxCleanup(i) /\ UNCHANGED cxFrame
    \/ \E i \in CxIds : CxBatch(i) /\ UNCHANGED cxFrame

SameProgramInit ==
    CxSameProgramInit /\ ExIdle /\ TpIdle /\ SpIdle /\ PpIdle /\ HfIdle /\ ElIdle /\ MdIdle /\ MtIdle

SpecSameProgram == SameProgramInit /\ [][SameProgramNext]_vars

\* one metadata refresh, under every outcome of its requests and writes
MetadataNext ==
    \/ MdStart /\ UNCHANGED mdFrame
    \/ \E o \in MetadataOutcomes : MdExtract(o) /\ UNCHANGED mdFrame
    \/ \E w \in WriteOutcomes : MdSave(w) /\ UNCHANGED mdFrame

MetadataInit ==
    MdInit /\ ExIdle /\ TpIdle /\ SpIdle /\ PpIdle /\ HfIdle /\ ElIdle /\ CxIdle /\ MtIdle

SpecMetadata == MetadataInit /\ [][MetadataNext]_vars

\* the method derived from any display name
MethodNext == MtApply /\ UNCHANGED mtFrame

MethodInit ==
    MtInit /\ ExIdle /\ TpIdle /\ SpIdle /\ PpIdle /\ HfIdle /\ ElIdle /\ CxIdle
           /\ MdIdle

SpecMethod == MethodInit /\ [][MethodNext]_vars

\* ------------------------------------- the pipeline's guard and its LOAD
\* The tables of the pipeline both carry the prefix of its program.
TpAligned ==
    /\ StartsWith(tp_in_table, ProgramPrefix(tp_program))
    /\ StartsWith(tp_out_table, ProgramPrefix(tp_program))

\* C1: constructing the transformation pipeline succeeds iff its tables start
\* with the prefix of its program; with a table that does not, construction
\* fails with the error the guard documents (ValueError), and such a pipeline
\* issues no write on the output table.
C1_MismatchFailsWithConfigurationError ==
    tp_pc # "new" =>
        /\ (tp_pc # "rejected") <=> TpAligned
        /\ ~TpAligned => tp_error = "ValueError"
        /\ ~TpAligned => h_tp_write = "none"

\* C6: when the write of LOAD fails, run() ends in failure, raising a wrapped
\* error that names the program; it does not report success.
C6_WriteFailurePropagates ==
    (tp_pc = "done" /\ h_tp_write \in {"failed", "raised"}) =>
        /\ tp_status = "failed"
        /\ tp_raised = [type |-> "RuntimeError", program |-> tp_program]

\* ------------------------------------------- county and national aggregates
\* the (analytic, method, period) keys of a dataset
SummaryKeys(df) ==
    {[analytic |-> df[i].analytic, method |-> df[i].method,
      period |-> df[i].period] : i \in 1..Len(df)}

RowsOfKey(df, k, national) ==
    {i \in 1..Len(df) : /\ df[i].analytic = k.analytic
                        /\ df[i].method = k.method
                        /\ df[i].period = k.period
                        /\ (df[i].org_unit = "Kenya") = national}

\* the values of a key's county rows, summed
CountyTotal(df, k) == SumFn([i \in RowsOfKey(df, k, FALSE) |-> df[i].value])

\* the values of a key's national rows, summed
NationalTotal(df, k) == SumFn([i \in RowsOfKey(df, k, TRUE) |-> df[i].value])

\* C8: in the dataset of a transformation run, for every (analytic, method,
\* period) the county rows sum to the value of the national rows, both in the
\* concatenation of county and national aggregates and in the final dataset
\* after the 2 Rod split.
C8_CountySumEqualsNational ==
    tp_pc \in {"transformed", "done"} =>
        /\ \A k \in SummaryKeys(tp_county \o tp_national) :
              /\ CountyTotal(tp_county \o tp_national, k)
                    = NationalTotal(tp_county \o tp_national, k)
              /\ Cardinality(RowsOfKey(tp_county \o tp_national, k, TRUE)) = 1
        /\ \A k \in SummaryKeys(tp_final) :
              CountyTotal(tp_final, k) = NationalTotal(tp_final, k)

\* C8 witness: an FP run whose 2 Rod/Service rows of two counties in one
\* period were split, so the final dataset has Jadelle rows for both counties.
C8_SplitOverTwoCounties ==
    /\ tp_pc = "transformed"
    /\ tp_program = "FP"
    /\ \E i \in 1..Len(tp_county) : IsTwoRodService(tp_county[i])
    /\ \E i \in 1..Len(tp_final), j \in 1..Len(tp_final) :
          /\ tp_final[i].analytic = "Jadelle" /\ tp_final[j].analytic = "Jadelle"
          /\ tp_final[i].method = "Service" /\ tp_final[j].method = "Service"
          /\ tp_final[i].org_unit = "Nairobi" /\ tp_final[j].org_unit = "Kiambu"
          /\ tp_final[i].period = tp_final[j].period
          /\ tp_final[i].value > 0 /\ tp_final[j].value > 0
    /\ \E i \in 1..Len(tp_final) :
          /\ tp_final[i].analytic = "Levoplant"
          /\ tp_final[i].org_unit = "Kenya"
          /\ tp_final[i].value > 0

\* ------------------------------------------------------ the service factors
\* the multiplier of an analytic name under a method, as a fraction
FactorOf(analytic, method) ==
    IF method # "Service" THEN Frac(1, 1)
    ELSE IF analytic = "COCs" THEN Frac(5, 4)
    ELSE IF analytic = "POPs" THEN Frac(1, 2)
    ELSE IF analytic \in {"Female Condoms", "Male Condoms"} THEN Frac(10, 1)
    ELSE Frac(1, 1)

\* what the observations of a key add up to: value * factor each, counted as
\* often as the raw table holds them
ContributionsTo(k) ==
    LET obs == {r \in DOMAIN tp_raw :
                   /\ r.org_unit \in DOMAIN tp_org_units
                   /\ r.analytic_id \in DOMAIN tp_elements
                   /\ AnalyticOf(r.analytic_id) = k.analytic
                   /\ MethodOf(tp_elements[r.analytic_id]) = k.method
                   /\ tp_org_units[r.org_unit] = k.org_unit
                   /\ r.period = k.period}
        f == FactorOf(k.analytic, k.method)
    IN SumFn([r \in obs |-> tp_raw[r] * ((r.value * ValueUnit * f.num) \div f.den)])

MaleCondomsAtNairobi ==
    [analytic_id |-> "cV4qoKSYiBs", org_unit |-> "F1",
     period |-> MkDate(BaseYear, 12, 1), value |-> 100]

RatioInRange(r) == 0 <= r.num /\ r.num <= r.den

\* how often row x is due in the output of the split of df with ratio r: the
\* rows that are not 2 Rod/Service as they are, and for each 2 Rod/Service
\* row of value V a Jadelle row of V * r and a Levoplant row of V * (1 - r)
SplitCopiesDue(df, r, x) ==
    LET idx == 1..Len(df)
        share(v) == (v * r.num) \div r.den
        rest(v) == (v * (r.den - r.num)) \div r.den
    IN Cardinality({i \in idx : NotTwoRodService(df[i]) /\ df[i] = x})
       + Cardinality({i \in idx :
            /\ IsTwoRodService(df[i])
            /\ x = [analytic |-> "Jadelle", method |-> df[i].method,
                    org_unit |-> df[i].org_unit, period |-> df[i].period,
                    value |-> share(df[i].value)]})
       + Cardinality({i \in idx :
            /\ IsTwoRodService(df[i])
            /\ x = [analytic |-> "Levoplant", method |-> df[i].method,
                    org_unit |-> df[i].org_unit, period |-> df[i].period,
                    value |-> rest(df[i].value)]})

\* the rows the split of sp_df can give or is due to give
SplitRowUniverse ==
    SeqToSet(sp_result.df)
    \cup SeqToSet(sp_df)
    \cup {[analytic |-> a, method |-> sp_df[i].method, org_unit |-> sp_df[i].org_unit,
           period |-> sp_df[i].period, value |-> v] :
            a \in {"Jadelle", "Levoplant"}, i \in 1..Len(sp_df),
            v \in UNION {{(sp_df[j].value * sp_ratio.num) \div sp_ratio.den,
                          (sp_df[j].value * (sp_ratio.den - sp_ratio.num))
                              \div sp_ratio.den} : j \in 1..Len(sp_df)}}

\* C9: for a ratio r in [0, 1] the split gives, for every 2 Rod/Service row
\* of value V, exactly one Jadelle row of V * r and one Levoplant row of
\* V * (1 - r) with the other fields copied, the two values summing to V;
\* every other row stays as it is and no 2 Rod/Service row remains.
C9_SplitEmitsBothShares ==
    (sp_pc = "done" /\ RatioInRange(sp_ratio)) =>
        /\ sp_result.error = "none"
        /\ \A x \in SplitRowUniverse :
              Cardinality({i \in 1..Len(sp_result.df) : sp_result.df[i] = x})
                  = SplitCopiesDue(sp_df, sp_ratio, x)
        /\ \A i \in 1..Len(sp_result.df) : NotTwoRodService(sp_result.df[i])
        /\ Len(sp_result.df)
              = Len(sp_df) + Cardinality({i \in 1..Len(sp_df) : IsTwoRodService(sp_df[i])})
        /\ \A i \in 1..Len(sp_df) :
              IsTwoRodService(sp_df[i]) =>
                  (sp_df[i].value * sp_ratio.num) \div sp_ratio.den
                  + (sp_df[i].value * (sp_ratio.den - sp_ratio.num)) \div sp_ratio.den
                      = sp_df[i].value

\* C9 witness: a frame with a 2 Rod/Service row and a row of another kind was
\* split with a ratio strictly between 0 and 1.
C9_TwoRodRowSplit ==
    /\ sp_pc = "done"
    /\ 0 < sp_ratio.num /\ sp_ratio.num < sp_ratio.den
    /\ \E i \in 1..Len(sp_df) : IsTwoRodService(sp_df[i])
    /\ \E i \in 1..Len(sp_df) : NotTwoRodService(sp_df[i])
    /\ \E i \in 1..Len(sp_result.df) : sp_result.df[i].analytic = "Levoplant"

\* ---------------------------------------------------------- the period planner
\* C11: for start <= end the planner returns the first-of-month dates of the
\* calendar months from start's month to end's month, one each, in increasing
\* order, whatever the days of the inputs (so never an empty sequence, and one
\* period for start = end); for start > end it returns the empty sequence.
C11_OnePeriodPerMonth ==
    pp_pc = "done" =>
        IF DateLeq(pp_start, pp_end)
        THEN /\ Len(pp_periods) = MonthIndex(pp_end) - MonthIndex(pp_start) + 1
             /\ Len(pp_periods) >= 1
             /\ \A i \in 1..Len(pp_periods) :
                   pp_periods[i]
                       = IsoText(MonthOfIndex(MonthIndex(pp_start) + (i - 1)))
             /\ \A i \in 1..(Len(pp_periods) - 1) :
                   /\ ParseIso(pp_periods[i]) # ParseIso(pp_periods[i + 1])
                   /\ DateLeq(ParseIso(pp_periods[i]), ParseIso(pp_periods[i + 1]))
             /\ pp_start = pp_end => Len(pp_periods) = 1
        ELSE pp_periods = <<>>

\* C11 witness: a range over the turn of the year whose start falls on a
\* later day of the month than its end.
C11_RangeOverYearEnd ==
    /\ pp_pc = "done"
    /\ pp_start.y < pp_end.y
    /\ pp_start.d > pp_end.d
    /\ Len(pp_periods) >= 3

\* ------------------------------------------------------ the hierarchy flattener
\* no two rows of the frame carry the same id
UniqueIds(df) ==
    \A i \in 1..Len(df), j \in 1..Len(df) : df[i].id = df[j].id => i = j

\* the parent chain of row f resolves through a level-4, a level-3, a level-2
\* and a level-1 row of the frame
ChainResolves(df, f) ==
    \E w \in SeqToSet(df), sc \in SeqToSet(df), c \in SeqToSet(df), k \in SeqToSet(df) :
        /\ w.level = 4 /\ w.id = f.parent_id
        /\ sc.level = 3 /\ sc.id = w.parent_id
        /\ c.level = 2 /\ c.id = sc.parent_id
        /\ k.level = 1 /\ k.id = c.parent_id

\* the rows of the output for the unit with that id
OutputRowsOf(out, id) == {i \in 1..Len(out) : out[i].facility_id = id}

FacilityIds(out) == {out[i].facility_id : i \in 1..Len(out)}

\* the level-5 units of the frame below the level-3 row sc
FacilitiesBelow(df, sc) ==
    {f.id : f \in {r \in SeqToSet(df) :
                     /\ r.level = 5
                     /\ \E w \in SeqToSet(df) :
                           w.level = 4 /\ w.id = r.parent_id /\ w.parent_id = sc.id}}

\* C12: for a frame with unique ids, in any row order, the flattener gives
\* exactly one row for every level-5 unit whose parent chain resolves through
\* a level-4, level-3, level-2 and level-1 row, and no other row; after one
\* level-3 row is taken out, exactly the facilities below it are gone.
C12_OneRowPerResolvedFacility ==
    (hf_pc = "done" /\ UniqueIds(hf_df \o <<hf_removed>>)) =>
        /\ \A r \in SeqToSet(hf_df) :
              Cardinality(OutputRowsOf(hf_out, r.id))
                  = IF r.level = 5 /\ ChainResolves(hf_df, r) THEN 1 ELSE 0
        /\ FacilityIds(hf_out) \subseteq {r.id : r \in SeqToSet(hf_df)}
        /\ \A i \in 1..Len(hf_out) :
              \E f \in SeqToSet(hf_df), w \in SeqToSet(hf_df), sc \in SeqToSet(hf_df),
                 c \in SeqToSet(hf_df) :
                  /\ f.id = hf_out[i].facility_id /\ hf_out[i].ward_id = f.parent_id
                  /\ w.id = f.parent_id /\ hf_out[i].sub_county_id = w.parent_id
                  /\ sc.id = w.parent_id /\ hf_out[i].county_id = sc.parent_id
                  /\ c.id = sc.parent_id /\ hf_out[i].country_id = c.parent_id
        /\ hf_removed # NoRow =>
              /\ FacilityIds(hf_out)
                    = FacilityIds(hf_before) \ FacilitiesBelow(hf_df, hf_removed)
              /\ Len(hf_out)
                    = Len(hf_before)
                      - Cardinality(FacilityIds(hf_before)
                                    \cap FacilitiesBelow(hf_df, hf_removed))

\* C12 witness: the whole tree, listed in reverse, was flattened to a row for
\* each facility; with one sub-county taken out the facilities of the other
\* sub-county are what is left.
C12_SubCountyRemoved ==
    /\ hf_pc = "done"
    /\ UniqueIds(hf_df \o <<hf_removed>>)
    /\ hf_removed.level = 3
    /\ hf_df # <<>>
    /\ hf_df[Len(hf_df)].level = 1
    /\ Len(hf_before) = TreeFacilities
    /\ Len(hf_out) >= 1
    /\ Len(hf_out) < Len(hf_before)

\* ------------------------------------------------ the order of the final rows
\* the rows of a frame are in ascending (analytic, method, org_unit, period)
\* order
AscendingRows(df) ==
    \A i \in 1..Len(df), j \in 1..Len(df) : i < j => ~KeyLess(df[j], df[i])

\* C13: the final dataset of a transformation run, and what the run writes
\* to the output table, is in ascending (analytic, method, org_unit, period)
\* order.
C13_FinalDatasetSorted ==
    /\ tp_pc \in {"transformed", "done"} => AscendingRows(tp_final)
    /\ (tp_pc = "done" /\ h_tp_write = "ok") => AscendingRows(tp_out.rows)

\* ------------------------------------------------- what LOAD leaves behind
\* C14: when a transformation run has completed, the output table holds
\* exactly the rows of the run's final dataset, none of an earlier run; and
\* no step before LOAD, failing or not, changes the output table.
C14_OutputIsFinalDataset ==
    /\ [](( tp_pc = "done" /\ tp_status = "success") => tp_out = TableOf(tp_final))
    /\ [][(tp_pc \in {"new", "ready", "fetched"}) => (tp_out' = tp_out)]_vars

\* ------------------------------------------------------ blocking the event loop
\* C15: a blocking call of a run (remote query, database read or write) is
\* never in progress on the thread of the event loop: while it is in progress
\* it is in a worker thread and the loop is free for, or busy with, another
\* request.
C15_BlockingIoOffTheLoop ==
    el_io # "none" => (el_io = "in_thread" /\ el_loop # "run")

\* ------------------------------------------------- runs of different programs
\* C16: when an FP run and an MNCH run have both ended, however their cleanup
\* and append steps were interleaved, every table holds what it holds after
\* the two runs executed one after the other, in either order.
C16_InterleavingAsSequential ==
    (cx_runs["A"].pc = "done" /\ cx_runs["B"].pc = "done") =>
        /\ cx_db = CxRunAlone(CxRunAlone(cx_db0, cx_runs["A"]), cx_runs["B"])
        /\ cx_db = CxRunAlone(CxRunAlone(cx_db0, cx_runs["B"]), cx_runs["A"])

\* C16 witness: both runs ended after run B took database steps between the
\* cleanup and the last append of run A, over tables that held rows before.
C16_StepsInterleaved ==
    /\ cx_runs["A"].pc = "done"
    /\ cx_runs["B"].pc = "done"
    /\ cx_db0[cx_runs["A"].table].exists
    /\ cx_db[cx_runs["A"].table] # cx_db0[cx_runs["A"].table]
    /\ cx_db[cx_runs["B"].table] # cx_db0[cx_runs["B"].table]
    /\ \E i \in 1..Len(cx_trace), j \in 1..Len(cx_trace), k \in 1..Len(cx_trace) :
          /\ i < j /\ j < k
          /\ cx_trace[i] = "A" /\ cx_trace[j] = "B" /\ cx_trace[k] = "A"

\* ----------------------------------------------- queries that return nothing
\* the batch recorded last came back without usable data
LastQueryUnusable(batches) ==
    batches # <<>> /\ batches[Len(batches)].q \in PayloadOutcomes \ {"ok"}

\* C17: on a transport error, a parse error, a malformed schema or an empty
\* payload the extraction function raises nothing and returns a zero-row
\* frame with the columns analytic, org_unit, period, value; that iteration
\* of the run appends nothing and the run goes on to the next chunk, or
\* completes when there is none.
C17_UnusablePayloadGivesEmptyFrame ==
    /\ [](\A i \in 1..Len(h_batches) :
            h_batches[i].q \in PayloadOutcomes \ {"ok"} =>
                /\ ~h_batches[i].raised
                /\ h_batches[i].rows = 0
                /\ h_batches[i].columns = <<"analytic", "org_unit", "period", "value">>
                /\ h_batches[i].wrote = "none")
    /\ [][(Len(h_batches') = Len(h_batches) + 1 /\ LastQueryUnusable(h_batches')) =>
            /\ db' = db
            /\ r_total' = r_total
            /\ r_index' = r_index + ex_chunk
            /\ IF r_index' < Len(r_org_units)
               THEN ex_pc' = "batch" /\ r_status' = "running"
               ELSE r_status' = "completed"]_vars

\* C17 witness: a run whose first query came back empty and whose second
\* lacked the columns went on to a third chunk, which it appended.
C17_RunWentOnAfterEmptyPayload ==
    /\ Len(h_batches) = 3
    /\ h_batches[1].q = "empty"
    /\ h_batches[2].q = "schema"
    /\ h_batches[3].q = "ok"
    /\ h_batches[3].wrote = "ok"
    /\ r_status = "completed"

\* -------------------------------------------------- the delete of a run
\* some row of table t is gone, or has fewer copies, in table u
Shrinks(t, u) ==
    \E r \in DOMAIN t.rows : r \notin DOMAIN u.rows \/ u.rows[r] < t.rows[r]

\* C18: a run deletes from its destination table at most once, and does so
\* before its first remote query and its first append: the delete statement
\* is issued only while the run has neither cleaned up nor begun a batch and
\* the table is as the run found it, and no later step takes a row away.
C18_OneDeleteBeforeTheBatches ==
    [][(ex_pc \in {"cleanup", "batch"}) =>
          /\ (h_cleanup' # h_cleanup) =>
                 /\ h_cleanup = "none"
                 /\ h_batches = <<>>
                 /\ h_batches' = <<>>
                 /\ db[ex_table] = h_start_tbl
          /\ Shrinks(db[ex_table], db'[ex_table]) =>
                 /\ h_cleanup = "none"
                 /\ h_cleanup' = "deleted"
          /\ (h_batches' # h_batches) =>
                 /\ h_cleanup' = h_cleanup
                 /\ h_cleanup \in {"skipped_no_periods", "skipped_no_table",
                                   "deleted"}]_vars

\* C18 witness: a run that deleted the old rows of its periods and then
\* appended two batches; the row of a month outside the range is still there.
C18_DeletedThenAppendedTwice ==
    /\ RunEnded
    /\ r_status = "completed"
    /\ h_cleanup = "deleted"
    /\ OldRow \in DOMAIN h_start_tbl.rows
    /\ OutsideRow \in DOMAIN db[ex_table].rows
    /\ Len(h_batches) >= 2
    /\ h_batches[1].wrote = "ok"
    /\ h_batches[2].wrote = "ok"

\* ------------------------------------------------ a cleanup that fails
\* C19: when the cleanup of a run fails, in the existence test or in the
\* delete statement, the run has stopped there: it made no remote query,
\* appended nothing, and the destination table is as the run found it.
C19_FailedCleanupStopsTheRun ==
    h_cleanup \in {"raised", "failed"} =>
        /\ ex_pc = "ready"
        /\ r_status = "aborted_cleanup"
        /\ h_batches = <<>>
        /\ r_index = 0
        /\ r_total = 0
        /\ db[ex_table] = h_start_tbl

\* C19 witness: the delete statement failed on a table holding old rows of
\* the run's periods, with several facilities waiting to be queried.
C19_DeleteFailedWithFacilitiesWaiting ==
    /\ RunEnded
    /\ h_cleanup = "failed"
    /\ Len(r_org_units) >= 2
    /\ OldRow \in DOMAIN db[ex_table].rows
    /\ h_batches = <<>>

\* ------------------------------------------- what the caller of run() sees
\* C20: a run whose cleanup or whose batch failed ends as failed for the
\* caller awaiting it: an exception is delivered, and what is delivered
\* differs from what a completed run delivers.
C20_FailureSurfacedToCaller ==
    (RunEnded /\ r_status \in {"aborted_cleanup", "aborted_batch"}) =>
        /\ AwaitedResult(r_status).raised
        /\ AwaitedResult(r_status) # AwaitedResult("completed")

\* ------------------------------------------- months cleaned, months queried
\* the months whose rows the cleanup of this run deletes, as period codes
CleanedMonths == {PeriodCode(ParseIso(r_target[i])) : i \in 1..Len(r_target)}

\* the months every chunk's query of this run asks for
QueriedMonths == SeqToSet(UrlPeriods(r_start_str, r_end_str))

\* C21: for every pair of dates a run is started with, the months the cleanup
\* deletes are the months each chunk's remote query requests.
C21_CleanedMonthsAreQueriedMonths ==
    runs >= 1 => CleanedMonths = QueriedMonths

\* ------------------------------------------------ rows of other periods
\* the rows the destination table held at the start of the run whose period
\* is not a target period
RowsOutsideTarget ==
    {r \in DOMAIN h_start_tbl.rows : IsoText(r.period) \notin SeqToSet(r_target)}

\* C22: at every point of a run, also after it completed or aborted, every
\* row the destination table held before the run whose period is outside the
\* target periods is still there with all its copies; where the period is
\* not among the queried months either, the copies are exactly those.
C22_OtherPeriodsKept ==
    runs >= 1 =>
        \A r \in RowsOutsideTarget :
            /\ r \in DOMAIN db[ex_table].rows
            /\ db[ex_table].rows[r] >= h_start_tbl.rows[r]
            /\ PeriodCode(r.period) \notin QueriedMonths =>
                   db[ex_table].rows[r] = h_start_tbl.rows[r]

\* C22 witness: a run deleted the rows of its periods, appended a batch and
\* was then aborted by a batch; the row of the month before the range is in
\* the table as before, the old row of the range is gone or written anew.
C22_AbortedRunKeptOtherMonth ==
    /\ RunEnded
    /\ r_status = "aborted_batch"
    /\ h_cleanup = "deleted"
    /\ OutsideRow \in RowsOutsideTarget
    /\ OldRow \in DOMAIN h_start_tbl.rows
    /\ OldRow \notin RowsOutsideTarget
    /\ Len(h_batches) >= 2
    /\ h_batches[1].wrote = "ok"

\* ------------------------------------------------ two runs on one table
\* the periods both runs target
SharedPeriods ==
    SeqToSet(cx_runs["A"].target) \cap SeqToSet(cx_runs["B"].target)

\* both runs ended on the same table, each having cleaned up before either
\* appended: the first two database steps are one of each run
BothCleanedBeforeAppends ==
    /\ cx_runs["A"].pc = "done"
    /\ cx_runs["B"].pc = "done"
    /\ cx_runs["A"].table = cx_runs["B"].table
    /\ cx_trace[1] # cx_trace[2]

\* C23: when two runs on one table with a target period in common have both
\* cleaned up before either appended, the table holds every row of a common
\* period twice, once from each run, and its content is that of neither
\* serial execution of the two runs.
C23_InterleavedRunsDoubleRows ==
    (BothCleanedBeforeAppends /\ SharedPeriods # {}) =>
        LET tbl == cx_db[cx_runs["A"].table]
        IN /\ \A f \in Facilities, t \in SharedPeriods :
                 LET r == [org_unit |-> f, period |-> ParseIso(t)]
                 IN r \in DOMAIN tbl.rows /\ tbl.rows[r] = 2
           /\ cx_db # CxRunAlone(CxRunAlone(cx_db0, cx_runs["A"]), cx_runs["B"])
           /\ cx_db # CxRunAlone(CxRunAlone(cx_db0, cx_runs["B"]), cx_runs["A"])

\* C23 witness: two runs over different ranges with a month in common ended
\* on one table that held old rows, run B having cleaned up between the
\* cleanup and the first append of run A.
C23_BothCleanupsThenAppends ==
    /\ BothCleanedBeforeAppends
    /\ SharedPeriods # {}
    /\ cx_runs["A"].target # cx_runs["B"].target
    /\ cx_db0[cx_runs["A"].table].exists
    /\ cx_trace[1] = "A"
    /\ cx_trace[Len(cx_trace)] = "A"

\* ------------------------------------------------ one pass over the chunks
\* C24: a run that has started ends, completed or aborted; and the
\* loop iterations of a run, whatever their queries and writes gave, query
\* pairwise disjoint chunks at strictly increasing offsets, so no chunk and
\* no facility is queried a second time.
C24_RunEndsAfterOnePass ==
    /\ (ex_pc \in {"cleanup", "batch"}) ~>
            (RunEnded /\ r_status \in {"completed", "aborted_cleanup", "aborted_batch"})
    /\ [](\A i \in 1..Len(h_batches), j \in 1..Len(h_batches) :
            i < j => SeqToSet(h_batches[i].chunk) \cap SeqToSet(h_batches[j].chunk) = {})
    /\ [](Len(h_batches) <= CeilDiv(Len(r_org_units), ex_chunk))
    /\ [][(h_batches' # h_batches) => (r_index' > r_index \/ r_status' = "aborted_batch")]_vars

\* C24 witness: a run ended after three loop iterations of which the first
\* returned no rows and the second query failed; neither chunk was asked for
\* again.
C24_FailedChunkNotRetried ==
    /\ RunEnded
    /\ Len(h_batches) = 3
    /\ ex_chunk = 1
    /\ h_batches[1].q = "ok"
    /\ h_batches[1].rows = 0
    /\ h_batches[2].q = "transport"
    /\ h_batches[3].wrote = "ok"

\* ------------------------------------------------ a dataset that fails
\* C25: in a metadata refresh every extraction call is followed by the next
\* one however it ended; a dataset whose extraction failed is not written
\* and its table stays as it was; a dataset whose extraction succeeded is
\* handed to the database, which replaces the table by it when the write
\* goes through; and no extraction failure ends the refresh early.
C25_FailedDatasetSkippedOthersSaved ==
    /\ [](\A ds \in SeqToSet(MdDatasets) :
            /\ md_outcome[ds] \notin {"none", "ok"} =>
                   /\ md_db[ds] = md_db0[ds]
                   /\ md_wrote[ds] \in {"none", "skipped"}
            /\ md_outcome[ds] = "ok" =>
                   /\ md_wrote[ds] # "skipped"
                   /\ md_wrote[ds] = "ok" =>
                          md_db[ds] = TableOf(SeqToBag(md_frames[ds].df))
            /\ md_pc = "done" => md_wrote[ds] # "none")
    /\ [](md_pc = "raised" =>
            \E ds \in SeqToSet(MdDatasets) : md_wrote[ds] = "raised")
    /\ [][(md_pc = "extract") =>
            IF md_next < Len(MdDatasets)
            THEN md_pc' = "extract" /\ md_next' = md_next + 1
            ELSE md_pc' = "save"]_vars

\* C25 witness: the indicators request failed in a refresh whose other two
\* datasets were extracted; the indicators table holds its old row and the
\* other two tables, which held old rows too, were replaced.
C25_IndicatorsFailedOthersReplaced ==
    /\ md_pc = "done"
    /\ md_outcome["indicators"] = "transport"
    /\ md_db0["indicators"].exists
    /\ md_db["indicators"] = md_db0["indicators"]
    /\ md_wrote["organisation_units"] = "ok"
    /\ md_wrote["data_elements"] = "ok"
    /\ md_db0["organisation_units"].exists
    /\ md_db["organisation_units"] # md_db0["organisation_units"]
    /\ md_db["data_elements"] # md_db0["data_elements"]

\* ------------------------------------------------ the adjustment and MNCH
\* the unadjusted sum of the observations behind a county row
PlainCountyTotal(k) ==
    SumFn([r \in {x \in JoinedRows(tp_raw, tp_org_units, tp_elements) :
                     CountyKey(x, tp_org_units, tp_elements) =
                         [analytic |-> k.analytic, method |-> k.method,
                          org_unit |-> k.org_unit, period |-> k.period]}
              |-> tp_raw[r] * r.value * ValueUnit])

\* C26: when the pipeline's program is MNCH the adjustment step changes no
\* value: every county row holds the plain sum of its observations,
\* whatever its analytic and method.
C26_MnchValuesUnadjusted ==
    (tp_program = "MNCH" /\ tp_pc \in {"transformed", "done"}) =>
        \A i \in 1..Len(tp_county) : tp_county[i].value = PlainCountyTotal(tp_county[i])

\* ------------------------------------------------ the method of a name
\* the digits a, b, c stand next to each other somewhere in the name
HasDigits(name, a, b, c) ==
    \E i \in 1..Len(name) :
        i + 2 <= Len(name) /\ name[i] = a /\ name[i + 1] = b /\ name[i + 2] = c

\* C27: the method of a name is Service when the name contains 711,
\* otherwise Consumption when it contains 747 or 647, otherwise Unknown
\* Method; a name with both 711 and 747 or 647 is Service.
C27_MethodByFormNumber ==
    mt_pc = "done" =>
        /\ HasDigits(mt_name, "7", "1", "1") => mt_method = "Service"
        /\ (/\ ~HasDigits(mt_name, "7", "1", "1")
            /\ (HasDigits(mt_name, "7", "4", "7") \/ HasDigits(mt_name, "6", "4", "7")))
              => mt_method = "Consumption"
        /\ (/\ ~HasDigits(mt_name, "7", "1", "1")
            /\ ~HasDigits(mt_name, "7", "4", "7")
            /\ ~HasDigits(mt_name, "6", "4", "7"))
              => mt_method = "Unknown Method"

\* C27 witness: a name with both 747 and 711 in it was classified Service.
C27_BothNumbersGiveService ==
    /\ mt_pc = "done"
    /\ HasDigits(mt_name, "7", "1", "1")
    /\ HasDigits(mt_name, "7", "4", "7")
    /\ mt_method = "Service"

\* ------------------------------------------------ what the split leaves alone
\* the rows of a frame that are not 2 Rod rows of method Service, in order
OtherRows(df) ==
    SelectSeq(df, LAMBDA r : ~(r.method = "Service" /\ r.analytic = "2 Rod"))

\* C28: the split step of an MNCH run returns its frame as it is; that of an
\* FP run returns the frame as it is when no row is a 2 Rod row of method
\* Service, and otherwise the rows that are not, unchanged and in their
\* order, followed by nothing but Jadelle and Levoplant rows of method
\* Service, two for each 2 Rod/Service row.
C28_SplitLeavesOtherRows ==
    (sp_pc = "done" /\ sp_program # "none") =>
        LET out == sp_result.df
            kept == OtherRows(sp_df)
        IN /\ sp_result.error = "none"
           /\ sp_program # "FP" => out = sp_df
           /\ sp_program = "FP" =>
                 /\ kept = sp_df => out = sp_df
                 /\ Len(out) = Len(kept) + 2 * (Len(sp_df) - Len(kept))
                 /\ SubSeq(out, 1, Len(kept)) = kept
                 /\ \A i \in (Len(kept) + 1)..Len(out) :
                       /\ out[i].analytic \in {"Jadelle", "Levoplant"}
                       /\ out[i].method = "Service"

\* C28 witness: an FP run split a frame holding a 2 Rod row of method
\* Consumption and a 2 Rod row of method Service; the first is still there.
C28_ConsumptionTwoRodKept ==
    /\ sp_pc = "done"
    /\ sp_program = "FP"
    /\ \E i \in 1..Len(sp_df) : sp_df[i].analytic = "2 Rod" /\ sp_df[i].method = "Service"
    /\ \E i \in 1..Len(sp_df) :
          /\ sp_df[i].analytic = "2 Rod" /\ sp_df[i].method = "Consumption"
          /\ sp_result.df[1] = sp_df[i]
    /\ Len(sp_result.df) = 3

\* ------------------------------------------------ the duplicate audit
\* the raw dataset holds exactly one pair of identical rows
OneDuplicatePair(df) ==
    /\ Cardinality({r \in DOMAIN df : df[r] = 2}) = 1
    /\ \A r \in DOMAIN df : df[r] <= 2

\* the value a raw row contributes to its county row
Contribution(r) ==
    AdjustedValue(r.value * ValueUnit, AnalyticOf(r.analytic_id),
                  MethodOf(tp_elements[r.analytic_id]))

\* C29: for a raw dataset with exactly one pair of identical rows the audit
\* reports 2; the transformation step leaves the raw dataset as it was
\* read; and both copies are summed: the county row of the pair's key holds
\* twice the pair's contribution plus that of the other rows of the key, and
\* the national row of that analytic, method and period the sum of its
\* county rows.
C29_AuditCountsAndKeepsDuplicates ==
    /\ []((tp_pc \in {"transformed", "done"} /\ OneDuplicatePair(tp_raw)) =>
            /\ h_tp_dups = 2
            /\ \A d \in JoinedRows(tp_raw, tp_org_units, tp_elements) :
                  tp_raw[d] = 2 =>
                     LET k == CountyKey(d, tp_org_units, tp_elements)
                         others == {r \in JoinedRows(tp_raw, tp_org_units, tp_elements) \ {d} :
                                       CountyKey(r, tp_org_units, tp_elements) = k}
                         county == {i \in 1..Len(tp_county) :
                                       /\ tp_county[i].analytic = k.analytic
                                       /\ tp_county[i].method = k.method
                                       /\ tp_county[i].period = k.period}
                     IN /\ \E i \in county :
                             /\ tp_county[i].org_unit = k.org_unit
                             /\ tp_county[i].value =
                                    2 * Contribution(d)
                                    + SumFn([r \in others |-> tp_raw[r] * Contribution(r)])
                        /\ \E j \in 1..Len(tp_national) :
                             /\ tp_national[j].analytic = k.analytic
                             /\ tp_national[j].method = k.method
                             /\ tp_national[j].period = k.period
                             /\ tp_national[j].value =
                                    SumFn([i \in county |-> tp_county[i].value]))
    /\ [][(tp_pc = "fetched") => (tp_raw' = tp_raw)]_vars

\* C29 witness: a run read a raw table holding one Male Condoms observation
\* of facility F1 twice, logged 2 duplicates and summed both copies into one
\* Nairobi row.
C29_PairSummedTwice ==
    /\ tp_pc = "done"
    /\ OneDuplicatePair(tp_raw)
    /\ h_tp_dups = 2
    /\ \E d \in DOMAIN tp_raw :
          /\ tp_raw[d] = 2
          /\ d.analytic_id = "cV4qoKSYiBs"
          /\ d.org_unit = "F1"
    /\ Len(tp_county) = 1
    /\ tp_county[1].org_unit = "Nairobi"
    /\ tp_county[1].value >= 2 * 100 * ValueUnit

\* ------------------------------------------------ one row per key
\* the (analytic, method, org_unit, period) key of a row of the final dataset
FinalKey(r) == <<r.analytic, r.method, r.org_unit, r.period>>

\* C30: the final dataset of a transformation run holds at most one row per
\* (analytic, method, org_unit, period) key.
C30_FinalKeysUnique ==
    tp_pc \in {"transformed", "done"} =>
        \A i \in 1..Len(tp_final), j \in 1..Len(tp_final) :
            FinalKey(tp_final[i]) = FinalKey(tp_final[j]) => i = j

=============================================================================
